---- MODULE Spec2Model ----
(***************************************************************************)
(* Model of the multipass k3s command line tool: the lifecycle sequences   *)
(* (start / suspend / stop) of cluster_operator.py, k3s_operator.py and    *)
(* tools/main.py, the Cluster model's node loading, resource totals and    *)
(* role lookup, utils.deep_merge, main.py's status filter, node resolution *)
(* and init command, and node_operator.py's create_node, delete_node and   *)
(* wait_for_node_status.                                                   *)
(*                                                                         *)
(* A VM name is a sequence of one-character strings, so that the           *)
(* case-insensitive substring test of filter_vms_by_name is computed the   *)
(* way Python computes it.                                                 *)
(***************************************************************************)
EXTENDS Integers, Sequences, FiniteSets, TLC

VARIABLES
    backend,            \* names the backend reports, in its order
    power,              \* backend power state of every VM
    impl,               \* which copy of the lifecycle code runs
    operation,          \* "start" | "suspend" | "stop"
    cluster_type,       \* cluster_operator's cluster_type argument
    pc,                 \* position of the run: "Idle" | "Listing" |
                        \* "GroupInFlight" | "Sleeping" |
                        \* "AwaitingConfirmation" | "Returned"
    vms,                \* result of get_vm_list()
    control_plane_vms,  \* filter_vms_by_name(vms, "main" / "control")
    worker_vms,         \* filter_vms_by_name(vms, "worker")
    phase,              \* 0 before any batch, 1 first group, 2 second group
    trace,              \* gateway calls, returns, prompts and answers so far
    outcome,            \* "None" | "NoVMs" | "Done" | "Aborted" | "Failed"
    ret,                \* value the function returned
    inventory,          \* Cluster: inventory of cluster.yaml
    nodes,              \* Cluster.nodes: node name -> Node
    controller_nodes,   \* Cluster.controller_nodes
    worker_nodes,       \* Cluster.worker_nodes
    resources,          \* Cluster.resources
    generated,          \* names of the .generated/<name>.yaml files written
    cerror,             \* exception that ended the Cluster constructor
    cpc,                \* position of the Cluster constructor
    mbase,              \* merge: the base tree
    moverride,          \* merge: the override tree
    mthird,             \* merge: the tree merged over the first result
    mheap0,             \* merge: the objects before the call
    mheap,              \* merge: the objects now
    maddr,              \* merge: addresses of base, override, result, ...
    mpc,                \* merge: position
    sargs,              \* status: the --all / --main / --worker flags
    splain,             \* status: what get_vm_list_plain() returned
    slist,              \* status: the list get_vm_list() returned
    sshown,             \* status: the VMs of the table
    sout,               \* status: what was printed
    spc,                \* status: position
    rcommon,            \* init: the common configuration
    rnodes,             \* init: the merged node configs load_node_configs returned
    rorigin,            \* init: inventory position each merged config came from
    rreported,          \* init: node names an error was echoed for
    rcmds,              \* init: the launch commands built
    rpc,                \* init: position
    rflags,             \* init: the --yes / --dry-run / --generate flags
    rindex,             \* init: position of the creation loop in the node list
    rcount,             \* init: success_count
    rtrace,             \* init: prompts, answers, launch requests, file writes
    rret,               \* init: what create_virtual_machines returned
    qtype,              \* Cluster: argument of the last get_nodes_by_type call
    qresult,            \* Cluster: what that call returned
    wnow,               \* wait: the clock, in seconds
    wstart,             \* wait: start_time
    wtimeout,           \* wait: the timeout argument
    wtarget,            \* wait: the target_status argument
    wstatus,            \* wait: the status last observed
    wpolls,             \* wait: get_node_status calls made
    wpc,                \* wait: position
    wret,               \* wait: value returned
    nforce,             \* node: delete_node's force argument
    nscripts,           \* node: post_creation_scripts of the node config
    nidx,               \* node: position in the script list
    ntrace,             \* node: backend requests, prompts and their results
    npc,                \* node: position
    nret                \* node: value returned

lifecycleVars == <<backend, power, impl, operation, cluster_type, pc, vms,
                   control_plane_vms, worker_vms, phase, trace, outcome, ret>>
clusterVars == <<inventory, nodes, controller_nodes, worker_nodes, resources,
                 generated, cerror, cpc>>
mergeVars == <<mbase, moverride, mthird, mheap0, mheap, maddr, mpc>>
statusVars == <<sargs, splain, slist, sshown, sout, spc>>
resolveVars == <<rcommon, rnodes, rorigin, rreported, rcmds, rpc,
                 rflags, rindex, rcount, rtrace, rret>>
roleVars == <<qtype, qresult>>
waitVars == <<wnow, wstart, wtimeout, wtarget, wstatus, wpolls, wpc, wret>>
nodeVars == <<nforce, nscripts, nidx, ntrace, npc, nret>>
vars == <<backend, power, impl, operation, cluster_type, pc, vms,
          control_plane_vms, worker_vms, phase, trace, outcome, ret,
          inventory, nodes, controller_nodes, worker_nodes, resources,
          generated, cerror, cpc,
          mbase, moverride, mthird, mheap0, mheap, maddr, mpc,
          sargs, splain, slist, sshown, sout, spc,
          rcommon, rnodes, rorigin, rreported, rcmds, rpc,
          rflags, rindex, rcount, rtrace, rret,
          qtype, qresult,
          wnow, wstart, wtimeout, wtarget, wstatus, wpolls, wpc, wret,
          nforce, nscripts, nidx, ntrace, npc, nret>>

----------------------------------------------------------------------------
(* Bounds *)

MaxVMs == 3        \* longest backend VM list
MaxInventory == 2  \* most items in the inventory, both roles together
MaxListLen == 2    \* longest sequence value in a config tree
MaxPollSeconds == 1  \* longest a get_node_status call takes, in seconds
MaxPolls == 31     \* cap on the get_node_status calls of one wait
MaxScripts == 2    \* longest post_creation_scripts list

----------------------------------------------------------------------------
(* Strings as character sequences *)

Uppers == <<"A","B","C","D","E","F","G","H","I","J","K","L","M",
            "N","O","P","Q","R","S","T","U","V","W","X","Y","Z">>
Lowers == <<"a","b","c","d","e","f","g","h","i","j","k","l","m",
            "n","o","p","q","r","s","t","u","v","w","x","y","z">>

\* str.lower() on one character
LowerChar(c) ==
    IF \E i \in 1..Len(Uppers) : Uppers[i] = c
    THEN Lowers[CHOOSE i \in 1..Len(Uppers) : Uppers[i] = c]
    ELSE c

\* str.lower()
Lower(s) == [i \in 1..Len(s) |-> LowerChar(s[i])]

\* Python's `needle in haystack` on strings
StrIn(needle, haystack) ==
    \E i \in 0..(Len(haystack) - Len(needle)) :
        SubSeq(haystack, i + 1, i + Len(needle)) = needle

KwMain == <<"m","a","i","n">>
KwControl == <<"c","o","n","t","r","o","l">>
KwWorker == <<"w","o","r","k","e","r">>

\* VM names the backend may report
NamePool ==
    { <<"m","a","i","n","-","1">>,
      <<"w","o","r","k","e","r","-","1">>,
      <<"W","o","r","k","e","r","-","2">>,
      <<"m","a","i","n","-","w","o","r","k","e","r">>,
      <<"c","o","n","t","r","o","l","-","1">>,
      <<"d","b">> }

\* the `state` values the backend reports for a VM (multipass's spelling);
\* the lifecycle code never reads them
PowerStates == {"Running", "Stopped", "Suspended"}

\* duplicate-free sequences over S of length at most n
RECURSIVE SeqsUpTo(_, _)
SeqsUpTo(S, n) ==
    IF n = 0 THEN { <<>> }
    ELSE LET shorter == SeqsUpTo(S, n - 1)
         IN shorter \cup
            { Append(q, x) : q \in { r \in shorter : Len(r) = n - 1 },
                             x \in S }

Range(q) == { q[i] : i \in 1..Len(q) }
NoDup(q) == \A i, j \in 1..Len(q) : i # j => q[i] # q[j]
DistinctSeqs(S, n) == { q \in SeqsUpTo(S, n) : NoDup(q) }

----------------------------------------------------------------------------
(* utils.py *)

\* the VM dictionaries of `multipass list --format json`
VmDicts(names, pw) == [i \in 1..Len(names) |-> [name |-> names[i], state |-> pw[names[i]]]]

filter_vms_by_name_CaseSensitive(vmlist, keyword) ==
    LET Matches(vm) == StrIn(keyword, vm.name)
    IN SelectSeq(vmlist, Matches)

\* [vm for vm in vms if keyword.lower() in vm["name"].lower()]
filter_vms_by_name(vmlist, keyword) ==
    LET Matches(vm) == StrIn(Lower(keyword), Lower(vm.name))
    IN SelectSeq(vmlist, Matches)

get_vm_names(vmlist) == [i \in 1..Len(vmlist) |-> vmlist[i].name]

----------------------------------------------------------------------------
(* The lifecycle sequence *)

Impls == {"cluster_operator", "k3s_operator", "tools_main"}
Operations == {"start", "suspend", "stop"}
ClusterTypes == {"k3s", "k8s"}

\* operation_map of operate_vms
operation_map == [o \in Operations |-> o]

\* state the backend puts a VM in when the command succeeds for it
TargetState(cmd) ==
    CASE cmd = "start" -> "Running"
      [] cmd = "suspend" -> "Suspended"
      [] cmd = "stop" -> "Stopped"

ControlKeyword_ToolsSelectsControl(im, ct) ==
    IF im = "tools_main" \/ (im = "cluster_operator" /\ ct # "k3s")
    THEN KwControl ELSE KwMain

\* keyword the control-plane group is selected by
ControlKeyword(im, ct) ==
    IF im = "cluster_operator" /\ ct # "k3s" THEN KwControl ELSE KwMain

FirstRole_WorkerFirst(o) == "worker"

FirstRole_ControllerFirst(o) == "controller"

\* role handled in the first phase of an operation
FirstRole(o) == IF o = "start" THEN "controller" ELSE "worker"

\* role handled in the second phase of an operation
SecondRole(o) == IF o = "start" THEN "worker" ELSE "controller"

GroupOf(role, cp, wk) == IF role = "controller" THEN cp ELSE wk

\* operate_vms sends a request only for a non-empty list of names
OperateVmsCalls(vm_names, o) == vm_names # <<>> /\ o \in DOMAIN operation_map

SendsBatch_NoEmptyCheck(grp, o) == TRUE

\* `if <group>:` around get_vm_names and operate_vms
SendsBatch(grp, o) == grp # <<>> /\ OperateVmsCalls(get_vm_names(grp), o)

CallEvent_FirstNameOnly(role, o, vmlist, ph) ==
    [type |-> "call", role |-> role, cmd |-> operation_map[o],
     names |-> SubSeq(get_vm_names(vmlist), 1, 1), phase |-> ph]

\* the request operate_vms sends: ["multipass", cmd] + vm_names
CallEvent(role, o, vmlist, ph) ==
    [type |-> "call", role |-> role, cmd |-> operation_map[o],
     names |-> get_vm_names(vmlist), phase |-> ph]

ReturnValue_AbortIsFailure(im, oc) ==
    IF im = "cluster_operator"
    THEN (IF oc = "Done" THEN "True" ELSE "False")
    ELSE "None"

\* value returned by the function for an outcome
ReturnValue(im, oc) ==
    IF im = "cluster_operator"
    THEN (IF oc \in {"Done", "Aborted"} THEN "True" ELSE "False")
    ELSE "None"

AfterFirstBatch_IgnoresFailure(success) == "AwaitingConfirmation"

\* where the run goes when the first group's batch returns
AfterFirstBatch(success) == IF success THEN "AwaitingConfirmation" ELSE "Failed"

AfterSecondBatch_AsksAgain(im, success) ==
    IF success THEN "AwaitingConfirmation" ELSE "Failed"

\* where the run goes when the second group's batch returns
AfterSecondBatch(im, success) ==
    IF im = "cluster_operator" /\ ~success THEN "Failed" ELSE "Done"

AfterConfirmation_IgnoresAnswer(answer) == "SecondGroup"

\* where the run goes when the confirmation is answered
AfterConfirmation(answer) == IF answer THEN "SecondGroup" ELSE "Aborted"

\* what an empty VM list leads to
AfterEmptyList == "NoVMs"

Finish(oc, log) ==
    /\ pc' = "Returned"
    /\ outcome' = oc
    /\ ret' = ReturnValue(impl, oc)
    /\ trace' = log
    /\ phase' = phase

\* the code from the second `if <group>:` to the end of the function
EnterSecond(log, cp, wk) ==
    LET grp == GroupOf(SecondRole(operation), cp, wk) IN
    IF SendsBatch(grp, operation)
    THEN /\ pc' = "GroupInFlight"
         /\ phase' = 2
         /\ trace' = Append(log, CallEvent(SecondRole(operation), operation, grp, 2))
         /\ UNCHANGED <<outcome, ret>>
    ELSE Finish("Done", log)

\* the code from the first `if <group>:` on
EnterFirst(log, cp, wk) ==
    LET grp == GroupOf(FirstRole(operation), cp, wk) IN
    IF SendsBatch(grp, operation)
    THEN /\ pc' = "GroupInFlight"
         /\ phase' = 1
         /\ trace' = Append(log, CallEvent(FirstRole(operation), operation, grp, 1))
         /\ UNCHANGED <<outcome, ret>>
    ELSE EnterSecond(log, cp, wk)

\* the command is invoked: the function asks the backend for the VM list
Invoke ==
    /\ pc = "Idle"
    /\ \E im \in Impls, o \in Operations, ct \in ClusterTypes :
          /\ im # "cluster_operator" => ct = "k3s"
          /\ impl' = im
          /\ operation' = o
          /\ cluster_type' = ct
    /\ pc' = "Listing"
    /\ trace' = Append(trace, [type |-> "list"])
    /\ UNCHANGED <<backend, power, vms, control_plane_vms, worker_vms, phase,
                   outcome, ret>>
    /\ UNCHANGED clusterVars
    /\ UNCHANGED mergeVars
    /\ UNCHANGED statusVars
    /\ UNCHANGED resolveVars
    /\ UNCHANGED roleVars
    /\ UNCHANGED waitVars
    /\ UNCHANGED nodeVars

\* get_vm_list returns; the groups are derived and the first batch is sent
ListReturn ==
    /\ pc = "Listing"
    /\ \E listed \in BOOLEAN :
          LET got == IF listed THEN VmDicts(backend, power) ELSE <<>>
              cp == filter_vms_by_name(got, ControlKeyword(impl, cluster_type))
              wk == filter_vms_by_name(got, KwWorker)
              log == Append(trace, [type |-> "listed", ok |-> listed])
          IN /\ vms' = got
             /\ IF got = <<>>
                THEN /\ Finish(AfterEmptyList, log)
                     /\ UNCHANGED <<control_plane_vms, worker_vms>>
                ELSE /\ control_plane_vms' = cp
                     /\ worker_vms' = wk
                     /\ EnterFirst(log, cp, wk)
    /\ UNCHANGED <<backend, power, impl, operation, cluster_type>>
    /\ UNCHANGED clusterVars
    /\ UNCHANGED mergeVars
    /\ UNCHANGED statusVars
    /\ UNCHANGED resolveVars
    /\ UNCHANGED roleVars
    /\ UNCHANGED waitVars
    /\ UNCHANGED nodeVars

\* the request in flight: the last call of the trace
LastCall == trace[Len(trace)]

\* run_command returns for the group's batch
GatewayReturn ==
    /\ pc = "GroupInFlight"
    /\ \E success \in BOOLEAN :
       \E changed \in SUBSET Range(LastCall.names) :
          /\ success => changed = Range(LastCall.names)
          /\ power' = [n \in DOMAIN power |->
                          IF n \in changed THEN TargetState(LastCall.cmd) ELSE power[n]]
          /\ LET log == Append(trace, [type |-> "return", ok |-> success, phase |-> phase])
                 to == IF phase = 1 THEN AfterFirstBatch(success)
                       ELSE AfterSecondBatch(impl, success)
             IN IF to = "AwaitingConfirmation"
                THEN /\ pc' = "Sleeping"
                     /\ trace' = log
                     /\ UNCHANGED <<phase, outcome, ret>>
                ELSE Finish(to, log)
    /\ UNCHANGED <<backend, impl, operation, cluster_type, vms,
                   control_plane_vms, worker_vms>>
    /\ UNCHANGED clusterVars
    /\ UNCHANGED mergeVars
    /\ UNCHANGED statusVars
    /\ UNCHANGED resolveVars
    /\ UNCHANGED roleVars
    /\ UNCHANGED waitVars
    /\ UNCHANGED nodeVars

\* time.sleep(...) after the first batch (5, 3 or 2 seconds, by copy and
\* operation) is over: the confirmation is shown
SleepOver ==
    /\ pc = "Sleeping"
    /\ pc' = "AwaitingConfirmation"
    /\ trace' = Append(trace, [type |-> "prompt"])
    /\ UNCHANGED <<backend, power, impl, operation, cluster_type, vms,
                   control_plane_vms, worker_vms, phase, outcome, ret>>
    /\ UNCHANGED clusterVars
    /\ UNCHANGED mergeVars
    /\ UNCHANGED statusVars
    /\ UNCHANGED resolveVars
    /\ UNCHANGED roleVars
    /\ UNCHANGED waitVars
    /\ UNCHANGED nodeVars

\* the operator answers the confirmation
Confirm ==
    /\ pc = "AwaitingConfirmation"
    /\ \E answer \in BOOLEAN :
          LET log == Append(trace, [type |-> "answer", yes |-> answer])
              to == AfterConfirmation(answer)
          IN IF to = "SecondGroup"
             THEN EnterSecond(log, control_plane_vms, worker_vms)
             ELSE Finish(to, log)
    /\ UNCHANGED <<backend, power, impl, operation, cluster_type, vms,
                   control_plane_vms, worker_vms>>
    /\ UNCHANGED clusterVars
    /\ UNCHANGED mergeVars
    /\ UNCHANGED statusVars
    /\ UNCHANGED resolveVars
    /\ UNCHANGED roleVars
    /\ UNCHANGED waitVars
    /\ UNCHANGED nodeVars

----------------------------------------------------------------------------
(* Config trees and utils.deep_merge *)

\* a YAML value: a scalar, a list or a dict
Scalar(x) == [tag |-> "scalar", v |-> x]
List(q) == [tag |-> "list", v |-> q]
Dict(f) == [tag |-> "dict", v |-> f]

\* a dict's item that holds another dict: a reference to that object
Ref(a) == [tag |-> "ref", v |-> a]

EmptyObject == [k \in {} |-> Scalar(0)]

\* the order the keys of a dict are visited in
KeyOrder == <<"a", "b", "x", "name", "image", "resources", "cpus", "memory", "disk">>

StoreItem_MergesListElements(h, a, key, cell) ==
    IF key \in DOMAIN h[a] /\ h[a][key].tag = "list" /\ cell.tag = "list"
    THEN LET old == h[a][key].v
             longest == IF Len(old) > Len(cell.v) THEN Len(old) ELSE Len(cell.v)
         IN [h EXCEPT ![a] =
                (key :> List([i \in 1..longest |->
                                IF i <= Len(cell.v) THEN cell.v[i] ELSE old[i]]))
                @@ h[a]]
    ELSE [h EXCEPT ![a] = (key :> cell) @@ h[a]]

StoreItem_KeepExisting(h, a, key, cell) == [h EXCEPT ![a] = h[a] @@ (key :> cell)]

\* dict[key] = cell on the object at address a
StoreItem(h, a, key, cell) == [h EXCEPT ![a] = (key :> cell) @@ h[a]]

\* the objects of a parsed YAML document: one object per dict
RECURSIVE LoadDict(_, _)
RECURSIVE LoadKeys(_, _, _, _)
LoadDict(h, t) == LoadKeys(h, t, 1, EmptyObject)
LoadKeys(h, t, i, obj) ==
    IF i > Len(KeyOrder)
    THEN [heap |-> Append(h, obj), addr |-> Len(h) + 1]
    ELSE LET key == KeyOrder[i] IN
         IF key \notin DOMAIN t.v
         THEN LoadKeys(h, t, i + 1, obj)
         ELSE IF t.v[key].tag = "dict"
              THEN LET sub == LoadDict(h, t.v[key])
                   IN LoadKeys(sub.heap, t, i + 1, (key :> Ref(sub.addr)) @@ obj)
              ELSE LoadKeys(h, t, i + 1, (key :> t.v[key]) @@ obj)

\* the tree an object stands for
RECURSIVE Decode(_, _)
Decode(h, a) ==
    Dict([key \in DOMAIN h[a] |->
            IF h[a][key].tag = "ref" THEN Decode(h, h[a][key].v) ELSE h[a][key]])

CopyDict_Alias(h, a) == [heap |-> h, addr |-> a]

\* result = base_dict.copy(): a new dict with the same items
CopyDict(h, a) == [heap |-> Append(h, h[a]), addr |-> Len(h) + 1]

NestedMerge_Shallow(resultItem, value) == FALSE

\* key in result and isinstance(result[key], dict) and isinstance(value, dict)
NestedMerge(resultItem, value) ==
    /\ resultItem # <<>>
    /\ resultItem[1].tag = "ref"
    /\ value.tag = "ref"

\* utils.deep_merge on the objects at addresses base_dict and override_dict
RECURSIVE deep_merge(_, _, _)
RECURSIVE MergeItems(_, _, _, _)
deep_merge(h, base_dict, override_dict) ==
    LET result == CopyDict(h, base_dict)
    IN MergeItems(result.heap, result.addr, override_dict, 1)
MergeItems(h, result, override_dict, i) ==
    IF i > Len(KeyOrder)
    THEN [heap |-> h, addr |-> result]
    ELSE LET key == KeyOrder[i] IN
         IF key \notin DOMAIN h[override_dict]
         THEN MergeItems(h, result, override_dict, i + 1)
         ELSE LET value == h[override_dict][key]
                  item == IF key \in DOMAIN h[result] THEN <<h[result][key]>> ELSE <<>>
              IN IF NestedMerge(item, value)
                 THEN LET sub == deep_merge(h, item[1].v, value.v)
                      IN MergeItems(StoreItem(sub.heap, result, key, Ref(sub.addr)),
                                    result, override_dict, i + 1)
                 ELSE MergeItems(StoreItem(h, result, key, value),
                                 result, override_dict, i + 1)

\* deep_merge of two freshly parsed documents, as a tree
MergeTrees(base, override) ==
    LET b == LoadDict(<<>>, base)
        o == LoadDict(b.heap, override)
        m == deep_merge(o.heap, b.addr, o.addr)
    IN Decode(m.heap, m.addr)

\* config trees the merge is run on
MergeScalars == {Scalar(1), Scalar(2)}
\* one list of every length: [1], [2, 1], [3, 2, 1], ... so that two lists
\* that meet at a key differ in length and in every element
MergeLists == { List([i \in 1..n |-> n - i + 1]) : n \in 1..MaxListLen }
MergeLeaves == MergeScalars \cup MergeLists
DictsOver(keys, values) == { Dict(f) : f \in UNION { [S -> values] : S \in SUBSET keys } }
InnerTrees == DictsOver({"x"}, MergeLeaves)
ConfigTrees == DictsOver({"a", "b"}, MergeLeaves \cup InnerTrees)

\* the trees merged over a first result: any value at "a", a scalar or
\* nothing at "b"
ThirdTrees ==
    { t \in ConfigTrees : "b" \in DOMAIN t.v => t.v["b"] \in MergeScalars }

\* base and override are parsed, then deep_merge(base, override) is called
Merge ==
    /\ mpc = "Parsed"
    /\ LET m == deep_merge(mheap, maddr.base, maddr.override)
       IN /\ mheap' = m.heap
          /\ maddr' = [maddr EXCEPT !.result = m.addr]
    /\ mpc' = "Merged"
    /\ UNCHANGED <<mbase, moverride, mthird, mheap0>>
    /\ UNCHANGED lifecycleVars
    /\ UNCHANGED clusterVars
    /\ UNCHANGED statusVars
    /\ UNCHANGED resolveVars
    /\ UNCHANGED roleVars
    /\ UNCHANGED waitVars
    /\ UNCHANGED nodeVars

\* a third tree is parsed and deep_merge(result, third) is called
MergeThird ==
    /\ mpc = "Merged"
    /\ \E t \in ThirdTrees :
          LET c == LoadDict(mheap, t)
              m == deep_merge(c.heap, maddr.result, c.addr)
          IN /\ mthird' = t
             /\ mheap0' = c.heap
             /\ mheap' = m.heap
             /\ maddr' = [maddr EXCEPT !.third = c.addr, !.result3 = m.addr]
    /\ mpc' = "Merged3"
    /\ UNCHANGED <<mbase, moverride>>
    /\ UNCHANGED lifecycleVars
    /\ UNCHANGED clusterVars
    /\ UNCHANGED statusVars
    /\ UNCHANGED resolveVars
    /\ UNCHANGED roleVars
    /\ UNCHANGED waitVars
    /\ UNCHANGED nodeVars

----------------------------------------------------------------------------
(* model/node.py and model/cluster.py *)

InventoryNames == { <<"c","1">>, <<"c","2">>, <<"w","1">> }
InventoryNameSeq == << <<"c","1">>, <<"w","1">>, <<"c","2">> >>

\* quantity strings
Q(a, b) == <<a, b>>
Q512M == <<"5","1","2","M">>
Q1024M == <<"1","0","2","4","M">>

\* dict.get(key, default)
GetItem(t, key, default) == IF key \in DOMAIN t.v THEN t.v[key] ELSE default

\* the "default" section of the base config file
BaseDefaults ==
    Dict("resources" :> Dict("cpus" :> Scalar(1) @@ "memory" :> Scalar(Q("1","G"))))

\* one node's entry of a node config file
NodeEntry(name, res) == Dict("name" :> Scalar(name) @@ "resources" :> Dict(res))

EntriesFor(names, res) == [i \in 1..Len(names) |-> NodeEntry(names[i], res)]

Paths == {"a.yaml", "b.yaml", "x.yaml", "bad.yaml", "empty.yaml", "missing.yaml"}

\* what the node config file at a path holds
NodeFiles(path) ==
    CASE path = "a.yaml" ->
            [kind |-> "list",
             items |-> EntriesFor(InventoryNameSeq,
                          "cpus" :> Scalar(2) @@ "memory" :> Scalar(Q("4","G"))
                          @@ "disk" :> Scalar(Q("2","G")))]
      [] path = "b.yaml" ->
            [kind |-> "list",
             items |-> EntriesFor(SubSeq(InventoryNameSeq, 1, 2),
                          "cpus" :> Scalar(3) @@ "memory" :> Scalar(Q512M))]
      [] path = "x.yaml" ->
            [kind |-> "list",
             items |-> EntriesFor(InventoryNameSeq,
                          "memory" :> Scalar(Q("4","X")) @@ "disk" :> Scalar(Q1024M))]
      [] path = "bad.yaml" ->
            [kind |-> "list",
             items |-> EntriesFor(InventoryNameSeq,
                          "memory" :> Scalar(Q("x","G")))]
      [] path = "empty.yaml" -> [kind |-> "empty", items |-> <<>>]
      [] path = "missing.yaml" -> [kind |-> "missing", items |-> <<>>]

\* utils.load_config on a file: the parsed document, or sys.exit(1)
load_config(file) ==
    IF file.kind = "missing"
    THEN [exit |-> TRUE, doc |-> file]
    ELSE [exit |-> FALSE, doc |-> file]

\* Node.__init__: the resources dict with its defaults
NodeInit(name, config) ==
    LET resources_config == GetItem(config, "resources", Dict(EmptyObject))
    IN [name |-> name,
        resources |->
           [cpus |-> GetItem(resources_config, "cpus", Scalar(2)).v,
            memory |-> GetItem(resources_config, "memory", Scalar(Q("2","G"))).v,
            disk |-> GetItem(resources_config, "disk", Scalar(<<"1","0","G">>)).v]]

\* the entry of the list whose name is node_name, {} when there is none
FindNodeConfig(items, node_name) ==
    LET hits == { i \in 1..Len(items) : GetItem(items[i], "name", Scalar(<<>>)).v = node_name }
    IN IF hits = {} THEN Dict(EmptyObject)
       ELSE items[CHOOSE i \in hits : \A j \in hits : i <= j]

\* Node.create_from_configs: the node, or the exception that ends it
create_from_configs(node_config_path, node_name) ==
    LET loaded == load_config(NodeFiles(node_config_path)) IN
    IF loaded.exit
    THEN [error |-> "SystemExit", written |-> FALSE, node |-> <<>>]
    ELSE IF loaded.doc.kind = "empty"
    THEN [error |-> "TypeError", written |-> FALSE, node |-> <<>>]
    ELSE LET merged_config == MergeTrees(BaseDefaults,
                                  FindNodeConfig(loaded.doc.items, node_name))
         IN [error |-> "None", written |-> TRUE,
             node |-> NodeInit(node_name, merged_config)]

\* a Cluster under construction
NewCluster ==
    [nodes |-> <<>>, controller_nodes |-> <<>>, worker_nodes |-> <<>>,
     generated |-> <<>>, error |-> "None"]

AddNode_RejectsNothing(c, role, node_name, node) ==
    [c EXCEPT !.nodes = c.nodes @@ (node_name :> node),
              !.controller_nodes =
                  IF role = "controller" THEN Append(@, node_name) ELSE @,
              !.worker_nodes =
                  IF role = "worker" THEN Append(@, node_name) ELSE @]

\* self.nodes[node_name] = node; self.<role>_nodes.append(node_name)
AddNode(c, role, node_name, node) ==
    [c EXCEPT !.nodes = (node_name :> node) @@ c.nodes,
              !.controller_nodes =
                  IF role = "controller" THEN Append(@, node_name) ELSE @,
              !.worker_nodes =
                  IF role = "worker" THEN Append(@, node_name) ELSE @]

\* one loop of Cluster._load_nodes over the items of a role
RECURSIVE LoadItems(_, _, _, _)
LoadItems(c, items, role, i) ==
    IF i > Len(items) \/ c.error # "None"
    THEN c
    ELSE LET made == create_from_configs(items[i].path, items[i].name)
             wrote == IF made.written THEN Append(c.generated, items[i].name)
                      ELSE c.generated
         IN IF made.error # "None"
            THEN [c EXCEPT !.error = made.error, !.generated = wrote]
            ELSE LoadItems([AddNode(c, role, items[i].name, made.node)
                               EXCEPT !.generated = wrote],
                           items, role, i + 1)

\* Cluster._load_nodes: the controller items, then the worker items
LoadControllers(inv) == LoadItems(NewCluster, inv.controller, "controller", 1)
LoadWorkers(c, inv) == LoadItems(c, inv.worker, "worker", 1)
LoadNodes(inv) == LoadWorkers(LoadControllers(inv), inv)

DigitChars == <<"0","1","2","3","4","5","6","7","8","9">>
IsDigit(ch) == \E d \in 1..Len(DigitChars) : DigitChars[d] = ch
DigitValue(ch) == (CHOOSE d \in 1..Len(DigitChars) : DigitChars[d] = ch) - 1

\* whether int(text) returns a value (decimal digits only)
IntParses(text) == Len(text) > 0 /\ \A i \in 1..Len(text) : IsDigit(text[i])

\* int(text)
RECURSIVE IntOf(_)
IntOf(text) ==
    IF Len(text) = 0 THEN 0
    ELSE 10 * IntOf(SubSeq(text, 1, Len(text) - 1)) + DigitValue(text[Len(text)])

\* str.endswith(suffix) for a one-character suffix
EndsWith(text, suffix) == Len(text) > 0 /\ text[Len(text)] = suffix

\* text[:-1]
DropLast(text) == SubSeq(text, 1, Len(text) - 1)

\* A Python number n is held as 1024 * n, with whether it is a float:
\* every value the totals take is a multiple of 1/1024.
PyInt(n) == [x1024 |-> 1024 * n, float |-> FALSE]

PyDiv1024_NoDivision(n) == [x1024 |-> 1024 * n, float |-> TRUE]

\* n / 1024
PyDiv1024(n) == [x1024 |-> n, float |-> TRUE]

\* a + b
PyAdd(a, b) == [x1024 |-> a.x1024 + b.x1024, float |-> a.float \/ b.float]

\* the `if ...endswith("G") ... elif ...endswith("M")` step for one quantity
AddQuantity(total, text) ==
    IF EndsWith(text, "G")
    THEN (IF IntParses(DropLast(text))
          THEN [error |-> "None", total |-> PyAdd(total, PyInt(IntOf(DropLast(text))))]
          ELSE [error |-> "ValueError", total |-> total])
    ELSE IF EndsWith(text, "M")
    THEN (IF IntParses(DropLast(text))
          THEN [error |-> "None", total |-> PyAdd(total, PyDiv1024(IntOf(DropLast(text))))]
          ELSE [error |-> "ValueError", total |-> total])
    ELSE [error |-> "None", total |-> total]

\* ClusterResources(): the totals before any calculation
NoResources ==
    [total_cpus |-> 0, total_memory |-> PyInt(0), total_disk |-> PyInt(0)]

\* Cluster._calculate_resources over the nodes named in `todo`
RECURSIVE SumResources(_, _, _)
SumResources(nodemap, todo, acc) ==
    IF todo = {} \/ acc.error # "None"
    THEN acc
    ELSE LET name == CHOOSE n \in todo : TRUE
             node == nodemap[name]
             mem == AddQuantity(acc.totals.total_memory, node.resources.memory)
             dsk == AddQuantity(acc.totals.total_disk, node.resources.disk)
         IN IF mem.error # "None" \/ dsk.error # "None"
            THEN [acc EXCEPT !.error = "ValueError"]
            ELSE SumResources(nodemap, todo \ {name},
                    [error |-> "None",
                     totals |-> [total_cpus |-> acc.totals.total_cpus + node.resources.cpus,
                                 total_memory |-> mem.total,
                                 total_disk |-> dsk.total]])

calculate_resources(nodemap) ==
    SumResources(nodemap, DOMAIN nodemap, [error |-> "None", totals |-> NoResources])

InventoryItems == [name : InventoryNames, path : Paths]

\* inventories of at most n items
Inventories(n) ==
    UNION { { [controller |-> SubSeq(q, 1, k), worker |-> SubSeq(q, k + 1, Len(q))] :
                k \in 0..Len(q) } : q \in SeqsUpTo(InventoryItems, n) }

\* Cluster.__init__: _load_nodes, then _calculate_resources
ClusterInit ==
    /\ cpc = "New"
    /\ \E inv \in Inventories(MaxInventory) :
          LET c == LoadNodes(inv)
              r == calculate_resources(c.nodes)
          IN /\ inventory' = inv
             /\ nodes' = c.nodes
             /\ controller_nodes' = c.controller_nodes
             /\ worker_nodes' = c.worker_nodes
             /\ generated' = c.generated
             /\ IF c.error # "None"
                THEN /\ cerror' = c.error
                     /\ resources' = NoResources
                     /\ cpc' = "Raised"
                ELSE IF r.error # "None"
                THEN /\ cerror' = r.error
                     /\ resources' = NoResources
                     /\ cpc' = "Raised"
                ELSE /\ cerror' = "None"
                     /\ resources' = r.totals
                     /\ cpc' = "Loaded"
    /\ UNCHANGED lifecycleVars
    /\ UNCHANGED mergeVars
    /\ UNCHANGED statusVars
    /\ UNCHANGED resolveVars
    /\ UNCHANGED roleVars
    /\ UNCHANGED waitVars
    /\ UNCHANGED nodeVars

UpdateCpus == {4}
UpdateMemory == { Q("8","G") }
UpdateDisk == { Q512M }

\* an optional argument: <<>> is None, <<x>> is the value x
Optional(values) == { <<>> } \cup { <<x>> : x \in values }

\* Node.update_resources on a node of the cluster
UpdateResources ==
    /\ cpc = "Loaded"
    /\ \E name \in DOMAIN nodes :
       \E cpus \in Optional(UpdateCpus),
          memory \in Optional(UpdateMemory),
          disk \in Optional(UpdateDisk) :
          nodes' = [nodes EXCEPT ![name].resources =
                       [cpus |-> IF cpus # <<>> THEN cpus[1] ELSE @.cpus,
                        memory |-> IF memory # <<>> THEN memory[1] ELSE @.memory,
                        disk |-> IF disk # <<>> THEN disk[1] ELSE @.disk]]
    /\ UNCHANGED <<inventory, controller_nodes, worker_nodes, resources,
                   generated, cerror, cpc>>
    /\ UNCHANGED lifecycleVars
    /\ UNCHANGED mergeVars
    /\ UNCHANGED statusVars
    /\ UNCHANGED resolveVars
    /\ UNCHANGED roleVars
    /\ UNCHANGED waitVars
    /\ UNCHANGED nodeVars

----------------------------------------------------------------------------
(* model/cluster.py: get_nodes_by_type *)

NodeTypes == {"controller", "worker", "master"}

get_nodes_by_type_WorkersByDefault(node_type) ==
    IF node_type = "controller" THEN controller_nodes ELSE worker_nodes

\* Cluster.get_nodes_by_type
get_nodes_by_type(node_type) ==
    IF node_type = "controller" THEN controller_nodes
    ELSE IF node_type = "worker" THEN worker_nodes
    ELSE <<>>

\* a caller asks a loaded cluster for the nodes of a type
GetNodesByType ==
    /\ cpc = "Loaded"
    /\ \E node_type \in NodeTypes :
          /\ qtype' = node_type
          /\ qresult' = get_nodes_by_type(node_type)
    /\ UNCHANGED clusterVars
    /\ UNCHANGED lifecycleVars
    /\ UNCHANGED mergeVars
    /\ UNCHANGED statusVars
    /\ UNCHANGED resolveVars
    /\ UNCHANGED waitVars
    /\ UNCHANGED nodeVars

----------------------------------------------------------------------------
(* main.py: status *)

StatusArgs == [all : BOOLEAN, main : BOOLEAN, worker : BOOLEAN]

\* `status` is invoked; get_vm_list_plain() is called
StatusInvoke ==
    /\ spc = "Idle"
    /\ \E args \in StatusArgs : sargs' = args
    /\ spc' = "ListingPlain"
    /\ UNCHANGED <<splain, slist, sshown, sout>>
    /\ UNCHANGED lifecycleVars
    /\ UNCHANGED clusterVars
    /\ UNCHANGED mergeVars
    /\ UNCHANGED resolveVars
    /\ UNCHANGED roleVars
    /\ UNCHANGED waitVars
    /\ UNCHANGED nodeVars

\* get_vm_list_plain() returns the text of `multipass list` (here the names
\* it shows) or, when the call failed, its error text; get_vm_list() is
\* called
StatusPlainReturn ==
    /\ spc = "ListingPlain"
    /\ \E success \in BOOLEAN :
          splain' = [called |-> TRUE, ok |-> success,
                     names |-> IF success THEN backend ELSE <<>>]
    /\ spc' = "Listing"
    /\ UNCHANGED <<sargs, slist, sshown, sout>>
    /\ UNCHANGED lifecycleVars
    /\ UNCHANGED clusterVars
    /\ UNCHANGED mergeVars
    /\ UNCHANGED resolveVars
    /\ UNCHANGED roleVars
    /\ UNCHANGED waitVars
    /\ UNCHANGED nodeVars

\* get_vm_list() returns (the backend's list, or [] when the call failed)
\* and status prints its view: the table of the filtered list, or the text
\* get_vm_list_plain() returned
StatusListReturn ==
    /\ spc = "Listing"
    /\ \E success \in BOOLEAN :
          LET got == IF success THEN VmDicts(backend, power) ELSE <<>>
              keyword == IF sargs.main THEN KwMain ELSE KwWorker
              filtered == filter_vms_by_name(got, keyword)
          IN /\ slist' = got
             /\ IF got = <<>>
                THEN /\ sout' = "NoVMs"
                     /\ sshown' = <<>>
                ELSE IF sargs.main \/ sargs.worker
                THEN /\ sshown' = filtered
                     /\ sout' = IF filtered = <<>> THEN "NoMatch" ELSE "Table"
                ELSE /\ sshown' = <<>>
                     /\ sout' = IF splain.ok THEN "Plain" ELSE "PlainError"
    /\ spc' = "Done"
    /\ UNCHANGED <<sargs, splain>>
    /\ UNCHANGED lifecycleVars
    /\ UNCHANGED clusterVars
    /\ UNCHANGED mergeVars
    /\ UNCHANGED resolveVars
    /\ UNCHANGED roleVars
    /\ UNCHANGED waitVars
    /\ UNCHANGED nodeVars

----------------------------------------------------------------------------
(* main.py: load_node_configs and build_multipass_command *)

ResolveNames == { <<"c","1">>, <<"w","1">> }

Image2004 == <<"2","0",".","0","4">>
Image2204 == <<"2","2",".","0","4">>
Image2404 == <<"2","4",".","0","4">>
ImageJammy == <<"j","a","m","m","y">>
UnnamedVm == <<"u","n","n","a","m","e","d","-","v","m">>

\* a config layer that sets some of cpus, memory and the image
Layer(cpus, memory, image, imageKey) ==
    LET res == (IF cpus # <<>> THEN "cpus" :> Scalar(cpus[1]) ELSE EmptyObject)
               @@ (IF memory # <<>> THEN "memory" :> Scalar(memory[1]) ELSE EmptyObject)
    IN Dict((IF cpus # <<>> \/ memory # <<>>
             THEN "resources" :> Dict(res) ELSE EmptyObject)
            @@ (IF image # <<>> THEN imageKey :> Scalar(image[1]) ELSE EmptyObject))

\* the `global` section of the common config
GlobalConfigs ==
    { Layer(c, <<>>, i, "base_image") :
        c \in Optional({1}), i \in Optional({Image2004}) }

\* the `node_defaults` section of the common config
NodeDefaultsPool ==
    { Layer(c, m, i, "image") :
        c \in Optional({3}), m \in Optional({Q("3","G")}), i \in Optional({Image2404}) }

MainPaths == {"plain.yaml", "cpus.yaml", "image.yaml", "named.yaml",
              "nokey.yaml", "nolist.yaml", "empty.yaml", "missing.yaml"}

\* what the node config file at a path holds: a dict with a `nodes` list
MainNodeFiles(path) ==
    CASE path = "plain.yaml" ->
            [kind |-> "dict", has_nodes |-> TRUE, nodes |-> << Dict(EmptyObject) >>]
      [] path = "cpus.yaml" ->
            [kind |-> "dict", has_nodes |-> TRUE,
             nodes |-> << Layer(<<8>>, <<>>, <<>>, "image") >>]
      [] path = "image.yaml" ->
            [kind |-> "dict", has_nodes |-> TRUE,
             nodes |-> << Layer(<<>>, <<Q("8","G")>>, <<ImageJammy>>, "image") >>]
      [] path = "named.yaml" ->
            [kind |-> "dict", has_nodes |-> TRUE,
             nodes |-> << Dict(("name" :> Scalar(<<"m","a","i","n","-","1">>))
                               @@ Layer(<<8>>, <<Q("8","G")>>, <<ImageJammy>>, "image").v),
                          Layer(<<8>>, <<>>, <<>>, "image") >>]
      [] path = "nokey.yaml" -> [kind |-> "dict", has_nodes |-> FALSE, nodes |-> <<>>]
      [] path = "nolist.yaml" -> [kind |-> "dict", has_nodes |-> TRUE, nodes |-> <<>>]
      [] path = "empty.yaml" -> [kind |-> "empty", has_nodes |-> FALSE, nodes |-> <<>>]
      [] path = "missing.yaml" -> [kind |-> "missing", has_nodes |-> FALSE, nodes |-> <<>>]

merge_configs_CommonWins(common_config, node_config) ==
    MergeTrees(node_config, common_config)

\* main.merge_configs: the same code as utils.deep_merge
merge_configs(common_config, node_config) == MergeTrees(common_config, node_config)

\* the body of load_node_configs' loop for the inventory items from i on
RECURSIVE LoadNodeItems(_, _, _, _)
LoadNodeItems(node_defaults, inv, i, acc) ==
    IF i > Len(inv) \/ acc.exit
    THEN acc
    ELSE LET node_name == inv[i].name
             loaded == load_config(MainNodeFiles(inv[i].path))
             reported == [acc EXCEPT !.reported = Append(@, node_name)]
         IN IF loaded.exit
            THEN [acc EXCEPT !.exit = TRUE]
            ELSE IF loaded.doc.kind = "empty"
            THEN LoadNodeItems(node_defaults, inv, i + 1, reported)
            ELSE LET nodelist == IF loaded.doc.has_nodes THEN loaded.doc.nodes
                                 ELSE << Dict(EmptyObject) >>
                 IN IF Len(nodelist) = 0
                    THEN LoadNodeItems(node_defaults, inv, i + 1, reported)
                    ELSE LET first == nodelist[1]
                             node_data ==
                                 IF "name" \notin DOMAIN first.v
                                 THEN Dict(("name" :> Scalar(node_name)) @@ first.v)
                                 ELSE first
                             merged_config == merge_configs(node_defaults, node_data)
                         IN LoadNodeItems(node_defaults, inv, i + 1,
                               [acc EXCEPT !.nodes = Append(@, merged_config),
                                           !.origin = Append(@, i)])

\* main.load_node_configs
load_node_configs(common_config) ==
    LoadNodeItems(common_config.node_defaults, common_config.inventory, 1,
                  [nodes |-> <<>>, origin |-> <<>>, reported |-> <<>>, exit |-> FALSE])

\* str(n) for a natural number
RECURSIVE IntStr(_)
IntStr(n) ==
    IF n < 10 THEN << DigitChars[n + 1] >>
    ELSE Append(IntStr(n \div 10), DigitChars[(n % 10) + 1])

\* main.build_multipass_command: name, --cpus, --memory, --disk and image
build_multipass_command(vm_config, global_config) ==
    LET vm_resources == GetItem(vm_config, "resources", Dict(EmptyObject))
        global_resources == GetItem(global_config, "resources", Dict(EmptyObject))
    IN [name |-> GetItem(vm_config, "name", Scalar(UnnamedVm)).v,
        cpus |-> IntStr(GetItem(vm_resources, "cpus",
                            GetItem(global_resources, "cpus", Scalar(2))).v),
        memory |-> GetItem(vm_resources, "memory",
                       GetItem(global_resources, "memory", Scalar(Q("4","G")))).v,
        disk |-> GetItem(vm_resources, "disk",
                     GetItem(global_resources, "disk", Scalar(<<"2","0","G">>))).v,
        image |-> GetItem(vm_config, "image",
                      GetItem(global_config, "base_image", Scalar(Image2204))).v]

MainInventoryItems == [name : ResolveNames, path : MainPaths]

CommonConfigs ==
    [global : GlobalConfigs, node_defaults : NodeDefaultsPool,
     inventory : SeqsUpTo(MainInventoryItems, MaxInventory)]

InitFlags == [yes : BOOLEAN, dry_run : BOOLEAN, generate : BOOLEAN]

InitMode_DryRunFirst(flags) ==
    IF flags.dry_run THEN "dry_run"
    ELSE IF flags.generate THEN "generate"
    ELSE "create"

\* init: `if generate: ... return`, `if dry_run: ... return`, else create
InitMode(flags) ==
    IF flags.generate THEN "generate"
    ELSE IF flags.dry_run THEN "dry_run"
    ELSE "create"

\* init: load_node_configs(config_data)
LoadNodeConfigs ==
    /\ rpc = "Parsed"
    /\ LET r == load_node_configs(rcommon)
       IN IF r.exit
          THEN /\ rnodes' = <<>>
               /\ rorigin' = <<>>
               /\ rreported' = r.reported
               /\ rpc' = "Exited"
          ELSE /\ rnodes' = r.nodes
               /\ rorigin' = r.origin
               /\ rreported' = r.reported
               /\ rpc' = "Loaded"
    /\ UNCHANGED <<rcommon, rcmds, rflags, rindex, rcount, rtrace, rret>>
    /\ UNCHANGED lifecycleVars
    /\ UNCHANGED clusterVars
    /\ UNCHANGED mergeVars
    /\ UNCHANGED statusVars
    /\ UNCHANGED roleVars
    /\ UNCHANGED waitVars
    /\ UNCHANGED nodeVars

\* init --dry-run: the launch command of every merged node config
BuildCommands ==
    /\ rpc = "Loaded"
    /\ InitMode(rflags) = "dry_run"
    /\ rcmds' = [i \in 1..Len(rnodes) |->
                    build_multipass_command(rnodes[i], rcommon.global)]
    /\ rpc' = "Built"
    /\ UNCHANGED <<rcommon, rnodes, rorigin, rreported, rflags, rindex, rcount, rtrace, rret>>
    /\ UNCHANGED lifecycleVars
    /\ UNCHANGED clusterVars
    /\ UNCHANGED mergeVars
    /\ UNCHANGED statusVars
    /\ UNCHANGED roleVars
    /\ UNCHANGED waitVars
    /\ UNCHANGED nodeVars

----------------------------------------------------------------------------
(* main.py: init --generate and create_virtual_machines *)

\* init --generate: generate_config_files loads the node configs again (the
\* load errors are echoed a second time) and writes one file per merged
\* config
GenerateConfigFiles ==
    /\ rpc = "Loaded"
    /\ InitMode(rflags) = "generate"
    /\ LET r == load_node_configs(rcommon)
       IN /\ rnodes' = r.nodes
          /\ rorigin' = r.origin
          /\ rreported' = rreported \o r.reported
          /\ rtrace' = [i \in 1..Len(r.nodes) |->
                           [type |-> "write", node |-> i,
                            name |-> GetItem(r.nodes[i], "name", Scalar(UnnamedVm)).v]]
    /\ rpc' = "Generated"
    /\ UNCHANGED <<rcommon, rcmds, rflags, rindex, rcount, rret>>
    /\ UNCHANGED lifecycleVars
    /\ UNCHANGED clusterVars
    /\ UNCHANGED mergeVars
    /\ UNCHANGED statusVars
    /\ UNCHANGED roleVars
    /\ UNCHANGED waitVars
    /\ UNCHANGED nodeVars

CountAfter_CountsEveryReturn(count, result) == count + 1

\* success_count after execute(cmd) returned or raised
CountAfter(count, result) == IF result = "ok" THEN count + 1 ELSE count

\* return success_count == len(nodes), after the summary line
FinishCreate(count, log) ==
    /\ rpc' = "Returned"
    /\ rcount' = count
    /\ rret' = IF count = Len(rnodes) THEN "True" ELSE "False"
    /\ rtrace' = log
    /\ UNCHANGED <<rindex, rcmds>>

\* the loop body for the i-th node up to its confirmation prompt
EnterVm(i, count, log, dry_run) ==
    IF i > Len(rnodes)
    THEN FinishCreate(count, log)
    ELSE IF dry_run
    THEN \* every remaining node: the command is built and counted
         /\ rpc' = "Returned"
         /\ rcount' = count + (Len(rnodes) - i + 1)
         /\ rret' = IF count + (Len(rnodes) - i + 1) = Len(rnodes)
                    THEN "True" ELSE "False"
         /\ rtrace' = log
         /\ rcmds' = rcmds \o
                [j \in 1..(Len(rnodes) - i + 1) |->
                    build_multipass_command(rnodes[i + j - 1], rcommon.global)]
         /\ UNCHANGED rindex
    ELSE /\ rindex' = i
         /\ rcount' = count
         /\ rcmds' = Append(rcmds, build_multipass_command(rnodes[i], rcommon.global))
         /\ rtrace' = Append(log, [type |-> "prompt", node |-> i, about |-> "proceed"])
         /\ rpc' = "Confirming"
         /\ UNCHANGED rret

\* init without --generate and --dry-run: create_virtual_machines starts;
\* it loads the node configs again (the load errors are echoed a second
\* time) from the same files, so the list is the one init got
CreateVirtualMachines ==
    /\ rpc = "Loaded"
    /\ InitMode(rflags) = "create"
    /\ LET r == load_node_configs(rcommon)
       IN /\ rnodes' = r.nodes
          /\ rorigin' = r.origin
          /\ rreported' = rreported \o r.reported
          /\ IF r.nodes = <<>>
             THEN /\ rpc' = "Returned"
                  /\ rret' = "False"
                  /\ UNCHANGED <<rindex, rcount, rcmds, rtrace>>
             ELSE EnterVm(1, 0, rtrace, rflags.dry_run)
    /\ UNCHANGED <<rcommon, rflags>>
    /\ UNCHANGED lifecycleVars
    /\ UNCHANGED clusterVars
    /\ UNCHANGED mergeVars
    /\ UNCHANGED statusVars
    /\ UNCHANGED roleVars
    /\ UNCHANGED waitVars
    /\ UNCHANGED nodeVars

\* click.confirm("Proceed with VM creation?") is answered
ConfirmCreate ==
    /\ rpc = "Confirming"
    /\ \E answer \in BOOLEAN :
          LET log == Append(rtrace, [type |-> "answer", node |-> rindex, yes |-> answer])
          IN IF answer
             THEN /\ rtrace' = Append(log, [type |-> "launch", node |-> rindex,
                                            name |-> rcmds[Len(rcmds)].name])
                  /\ rpc' = "Launching"
                  /\ UNCHANGED <<rindex, rcount, rcmds, rret>>
             ELSE EnterVm(rindex + 1, rcount, log, rflags.dry_run)
    /\ UNCHANGED <<rcommon, rnodes, rorigin, rreported, rflags>>
    /\ UNCHANGED lifecycleVars
    /\ UNCHANGED clusterVars
    /\ UNCHANGED mergeVars
    /\ UNCHANGED statusVars
    /\ UNCHANGED roleVars
    /\ UNCHANGED waitVars
    /\ UNCHANGED nodeVars

\* execute(cmd) returns success or failure, or the try block raises
ExecuteReturn ==
    /\ rpc = "Launching"
    /\ \E result \in {"ok", "failed", "raised"} :
          LET log == Append(rtrace, [type |-> "return", node |-> rindex,
                                     result |-> result])
          IN IF result = "raised"
             THEN /\ rtrace' = Append(log, [type |-> "prompt", node |-> rindex,
                                            about |-> "continue"])
                  /\ rpc' = "AskContinue"
                  /\ UNCHANGED <<rindex, rcount, rcmds, rret>>
             ELSE EnterVm(rindex + 1, CountAfter(rcount, result), log, rflags.dry_run)
    /\ UNCHANGED <<rcommon, rnodes, rorigin, rreported, rflags>>
    /\ UNCHANGED lifecycleVars
    /\ UNCHANGED clusterVars
    /\ UNCHANGED mergeVars
    /\ UNCHANGED statusVars
    /\ UNCHANGED roleVars
    /\ UNCHANGED waitVars
    /\ UNCHANGED nodeVars

\* click.confirm("Continue with next VM?") is answered
ConfirmContinue ==
    /\ rpc = "AskContinue"
    /\ \E answer \in BOOLEAN :
          LET log == Append(rtrace, [type |-> "answer", node |-> rindex, yes |-> answer])
          IN IF answer
             THEN EnterVm(rindex + 1, rcount, log, rflags.dry_run)
             ELSE FinishCreate(rcount, log)
    /\ UNCHANGED <<rcommon, rnodes, rorigin, rreported, rflags>>
    /\ UNCHANGED lifecycleVars
    /\ UNCHANGED clusterVars
    /\ UNCHANGED mergeVars
    /\ UNCHANGED statusVars
    /\ UNCHANGED roleVars
    /\ UNCHANGED waitVars
    /\ UNCHANGED nodeVars

\* the inventories init is run on
ProvisionItems ==
    { [name |-> <<"c","1">>, path |-> "plain.yaml"],
      [name |-> <<"w","1">>, path |-> "cpus.yaml"],
      [name |-> <<"c","1">>, path |-> "empty.yaml"],
      [name |-> <<"w","1">>, path |-> "missing.yaml"] }

ProvisionConfigs ==
    [global : { Layer(<<1>>, <<>>, <<>>, "base_image") },
     node_defaults : { Layer(<<>>, <<Q("3","G")>>, <<>>, "image") },
     inventory : SeqsUpTo(ProvisionItems, MaxInventory)]

----------------------------------------------------------------------------
(* node_operator.py: get_node_status and wait_for_node_status *)

\* time.sleep(2)
SleepSeconds == 2

\* timeout: int = 60
DefaultTimeout == 60

WaitTimeouts == {0, 3, DefaultTimeout}
WaitTargets == {"Running", "deleted"}

\* what get_node_info returns: None, {} or the node's info dict
NodeInfos ==
    { [kind |-> "none", state |-> "None"],
      [kind |-> "empty", state |-> "None"],
      [kind |-> "nostate", state |-> "None"],
      [kind |-> "state", state |-> "Running"],
      [kind |-> "state", state |-> "Stopped"] }

\* get_node_status: info.get("state", "unknown") if info else "deleted"
get_node_status(info) ==
    IF info.kind \in {"none", "empty"} THEN "deleted"
    ELSE IF info.kind = "state" THEN info.state
    ELSE "unknown"

LoopTest_NeverExpires(now, start_time) ==
    /\ wpc' = "Polling"
    /\ wret' = wret

\* `while time.time() - start_time < timeout:` evaluated at time now
LoopTest(now, start_time) ==
    IF now - start_time < wtimeout'
    THEN /\ wpc' = "Polling"
         /\ wret' = wret
    ELSE /\ wpc' = "Returned"
         /\ wret' = "False"

\* wait_for_node_status is called
WaitInvoke ==
    /\ wpc = "Idle"
    /\ \E target \in WaitTargets, timeout \in WaitTimeouts :
          /\ wtarget' = target
          /\ wtimeout' = timeout
    /\ wstart' = wnow
    /\ LoopTest(wnow, wnow)
    /\ UNCHANGED <<wnow, wstatus, wpolls>>
    /\ UNCHANGED lifecycleVars
    /\ UNCHANGED clusterVars
    /\ UNCHANGED mergeVars
    /\ UNCHANGED statusVars
    /\ UNCHANGED resolveVars
    /\ UNCHANGED roleVars
    /\ UNCHANGED nodeVars

\* get_node_status returns after some time
StatusReturn ==
    /\ wpc = "Polling"
    /\ wpolls < MaxPolls
    /\ \E info \in NodeInfos, took \in 0..MaxPollSeconds :
          /\ wnow' = wnow + took
          /\ wstatus' = get_node_status(info)
    /\ wpolls' = wpolls + 1
    /\ IF wstatus' = wtarget
       THEN /\ wpc' = "Returned"
            /\ wret' = "True"
       ELSE /\ wpc' = "Sleeping"
            /\ wret' = wret
    /\ UNCHANGED <<wstart, wtimeout, wtarget>>
    /\ UNCHANGED lifecycleVars
    /\ UNCHANGED clusterVars
    /\ UNCHANGED mergeVars
    /\ UNCHANGED statusVars
    /\ UNCHANGED resolveVars
    /\ UNCHANGED roleVars
    /\ UNCHANGED nodeVars

\* time.sleep(2) returns and the loop condition is evaluated again
SleepReturn ==
    /\ wpc = "Sleeping"
    /\ wnow' = wnow + SleepSeconds
    /\ wtimeout' = wtimeout
    /\ LoopTest(wnow', wstart)
    /\ UNCHANGED <<wstart, wtarget, wstatus, wpolls>>
    /\ UNCHANGED lifecycleVars
    /\ UNCHANGED clusterVars
    /\ UNCHANGED mergeVars
    /\ UNCHANGED statusVars
    /\ UNCHANGED resolveVars
    /\ UNCHANGED roleVars
    /\ UNCHANGED nodeVars

----------------------------------------------------------------------------
(* node_operator.py: create_node and delete_node *)

\* script paths of a node config, with whether os.path.exists finds them
ScriptPool ==
    { [path |-> "a.sh", exists |-> TRUE],
      [path |-> "b.sh", exists |-> TRUE],
      [path |-> "gone.sh", exists |-> FALSE] }

NodeUnchangedOthers ==
    /\ UNCHANGED lifecycleVars
    /\ UNCHANGED clusterVars
    /\ UNCHANGED mergeVars
    /\ UNCHANGED statusVars
    /\ UNCHANGED resolveVars
    /\ UNCHANGED roleVars
    /\ UNCHANGED waitVars

\* create_node is called: the launch command is built and run
CreateNode ==
    /\ npc = "Idle"
    /\ \E scripts \in SeqsUpTo(ScriptPool, MaxScripts) : nscripts' = scripts
    /\ ntrace' = << [type |-> "launch"] >>
    /\ npc' = "Launching"
    /\ UNCHANGED <<nforce, nidx, nret>>
    /\ NodeUnchangedOthers

AfterLaunch_AlwaysScripts(success) == "Scripts"

\* `if success:` after run_command(cmd)
AfterLaunch(success) == IF success THEN "Scripts" ELSE "Failed"

\* execute_post_creation_scripts from the i-th script on: scripts that do
\* not exist are passed over, the next existing one is transferred
NextScript(i, log) ==
    LET rest == { j \in i..Len(nscripts') : nscripts'[j].exists }
    IN IF rest = {}
       THEN /\ npc' = "Returned"
            /\ nret' = "True"
            /\ ntrace' = log
            /\ nidx' = nidx
       ELSE LET j == CHOOSE k \in rest : \A m \in rest : k <= m
            IN /\ nidx' = j
               /\ ntrace' = Append(log, [type |-> "transfer", script |-> j,
                                         path |-> nscripts'[j].path])
               /\ npc' = "Transferring"
               /\ nret' = nret

\* run_command returns for the launch
LaunchReturn ==
    /\ npc = "Launching"
    /\ nscripts' = nscripts
    /\ \E success \in BOOLEAN :
          LET log == Append(ntrace, [type |-> "return", of |-> "launch", ok |-> success])
          IN IF AfterLaunch(success) = "Scripts"
             THEN NextScript(1, log)
             ELSE /\ npc' = "Returned"
                  /\ nret' = "False"
                  /\ ntrace' = log
                  /\ nidx' = nidx
    /\ UNCHANGED nforce
    /\ NodeUnchangedOthers

\* run_command returns for the transfer; the exec request follows
TransferReturn ==
    /\ npc = "Transferring"
    /\ \E success \in BOOLEAN :
          ntrace' = ntrace \o
              << [type |-> "return", of |-> "transfer", ok |-> success],
                 [type |-> "exec", script |-> nidx, path |-> nscripts[nidx].path] >>
    /\ npc' = "Executing"
    /\ UNCHANGED <<nforce, nscripts, nidx, nret>>
    /\ NodeUnchangedOthers

\* run_command returns for the exec; the loop goes on
ExecReturn ==
    /\ npc = "Executing"
    /\ nscripts' = nscripts
    /\ \E success \in BOOLEAN :
          NextScript(nidx + 1,
                     Append(ntrace, [type |-> "return", of |-> "exec", ok |-> success]))
    /\ UNCHANGED nforce
    /\ NodeUnchangedOthers

\* delete_node is called
DeleteNode ==
    /\ npc = "Idle"
    /\ \E force \in BOOLEAN :
          /\ nforce' = force
          /\ IF ~force
             THEN /\ ntrace' = << [type |-> "prompt"] >>
                  /\ npc' = "Confirming"
             ELSE /\ ntrace' = << [type |-> "stop"] >>
                  /\ npc' = "Stopping"
    /\ UNCHANGED <<nscripts, nidx, nret>>
    /\ NodeUnchangedOthers

\* click.confirm("Are you sure ...") is answered
DeleteConfirm ==
    /\ npc = "Confirming"
    /\ \E answer \in BOOLEAN :
          LET log == Append(ntrace, [type |-> "answer", yes |-> answer])
          IN IF ~answer
             THEN /\ ntrace' = log
                  /\ npc' = "Returned"
                  /\ nret' = "False"
             ELSE /\ ntrace' = Append(log, [type |-> "stop"])
                  /\ npc' = "Stopping"
                  /\ nret' = nret
    /\ UNCHANGED <<nforce, nscripts, nidx>>
    /\ NodeUnchangedOthers

\* run_command returns for `multipass stop`; the delete request follows
StopReturn ==
    /\ npc = "Stopping"
    /\ \E success \in BOOLEAN :
          ntrace' = ntrace \o
              << [type |-> "return", of |-> "stop", ok |-> success],
                 [type |-> "delete"] >>
    /\ npc' = "Deleting"
    /\ UNCHANGED <<nforce, nscripts, nidx, nret>>
    /\ NodeUnchangedOthers

DeleteResult_NeedsStop(stopped, deleted) ==
    IF stopped /\ deleted THEN "True" ELSE "False"

\* what delete_node returns after both requests
DeleteResult(stopped, deleted) == IF deleted THEN "True" ELSE "False"

\* run_command returns for `multipass delete --purge`
DeleteReturn ==
    /\ npc = "Deleting"
    /\ \E success \in BOOLEAN :
          /\ ntrace' = Append(ntrace, [type |-> "return", of |-> "delete", ok |-> success])
          /\ nret' = DeleteResult(ntrace[Len(ntrace) - 1].ok, success)
    /\ npc' = "Returned"
    /\ UNCHANGED <<nforce, nscripts, nidx>>
    /\ NodeUnchangedOthers

----------------------------------------------------------------------------
(* Specifications *)

ClusterIdle ==
    /\ inventory = [controller |-> <<>>, worker |-> <<>>]
    /\ nodes = <<>>
    /\ controller_nodes = <<>>
    /\ worker_nodes = <<>>
    /\ resources = NoResources
    /\ generated = <<>>
    /\ cerror = "None"
    /\ cpc = "New"

LifecycleIdle ==
    /\ impl = "k3s_operator"
    /\ operation = "start"
    /\ cluster_type = "k3s"
    /\ pc = "Idle"
    /\ vms = <<>>
    /\ control_plane_vms = <<>>
    /\ worker_vms = <<>>
    /\ phase = 0
    /\ trace = <<>>
    /\ outcome = "None"
    /\ ret = "None"

MergeIdle ==
    /\ mbase = Dict(EmptyObject)
    /\ moverride = Dict(EmptyObject)
    /\ mthird = Dict(EmptyObject)
    /\ mheap0 = <<>>
    /\ mheap = <<>>
    /\ maddr = [base |-> 0, override |-> 0, result |-> 0, third |-> 0, result3 |-> 0]
    /\ mpc = "Idle"

StatusIdle ==
    /\ sargs = [all |-> FALSE, main |-> FALSE, worker |-> FALSE]
    /\ splain = [called |-> FALSE, ok |-> FALSE, names |-> <<>>]
    /\ slist = <<>>
    /\ sshown = <<>>
    /\ sout = "None"
    /\ spc = "Idle"

ProvisionIdle ==
    /\ rflags = [yes |-> FALSE, dry_run |-> TRUE, generate |-> FALSE]
    /\ rindex = 0
    /\ rcount = 0
    /\ rtrace = <<>>
    /\ rret = "None"

ResolveIdle ==
    /\ rcommon = [global |-> Dict(EmptyObject), node_defaults |-> Dict(EmptyObject),
                  inventory |-> <<>>]
    /\ rnodes = <<>>
    /\ rorigin = <<>>
    /\ rreported = <<>>
    /\ rcmds = <<>>
    /\ rpc = "Idle"
    /\ ProvisionIdle

RolesIdle ==
    /\ qtype = "None"
    /\ qresult = <<>>

WaitIdle ==
    /\ wnow = 0
    /\ wstart = 0
    /\ wtimeout = 0
    /\ wtarget = "None"
    /\ wstatus = "None"
    /\ wpolls = 0
    /\ wpc = "Idle"
    /\ wret = "None"

NodeIdle ==
    /\ nforce = FALSE
    /\ nscripts = <<>>
    /\ nidx = 0
    /\ ntrace = <<>>
    /\ npc = "Idle"
    /\ nret = "None"

Init ==
    /\ backend \in DistinctSeqs(NamePool, MaxVMs)
    /\ \E s \in PowerStates : power = [n \in NamePool |-> s]
    /\ LifecycleIdle
    /\ ClusterIdle
    /\ MergeIdle
    /\ StatusIdle
    /\ ResolveIdle
    /\ RolesIdle
    /\ WaitIdle
    /\ NodeIdle

Next == Invoke \/ ListReturn \/ GatewayReturn \/ SleepOver \/ Confirm

Spec == Init /\ [][Next]_vars

\* every gateway call returns and every confirmation is answered
SpecLive == Spec /\ WF_vars(Next)

InitCluster ==
    /\ backend = <<>>
    /\ power = [n \in NamePool |-> "Stopped"]
    /\ LifecycleIdle
    /\ ClusterIdle
    /\ MergeIdle
    /\ StatusIdle
    /\ ResolveIdle
    /\ RolesIdle
    /\ WaitIdle
    /\ NodeIdle

NextCluster == ClusterInit \/ UpdateResources

SpecCluster == InitCluster /\ [][NextCluster]_vars

NextRoles == ClusterInit \/ GetNodesByType

SpecRoles == InitCluster /\ [][NextRoles]_vars

InitMerge ==
    /\ backend = <<>>
    /\ power = [n \in NamePool |-> "Stopped"]
    /\ LifecycleIdle
    /\ ClusterIdle
    /\ \E b \in ConfigTrees, o \in ConfigTrees :
          LET lb == LoadDict(<<>>, b)
              lo == LoadDict(lb.heap, o)
          IN /\ mbase = b
             /\ moverride = o
             /\ mheap0 = lo.heap
             /\ mheap = lo.heap
             /\ maddr = [base |-> lb.addr, override |-> lo.addr, result |-> 0,
                         third |-> 0, result3 |-> 0]
    /\ mthird = Dict(EmptyObject)
    /\ mpc = "Parsed"
    /\ StatusIdle
    /\ ResolveIdle
    /\ RolesIdle
    /\ WaitIdle
    /\ NodeIdle

NextMerge == Merge \/ MergeThird

SpecMerge == InitMerge /\ [][NextMerge]_vars

InitStatus ==
    /\ backend \in DistinctSeqs(NamePool, MaxVMs)
    /\ power = [n \in NamePool |-> "Running"]
    /\ LifecycleIdle
    /\ ClusterIdle
    /\ MergeIdle
    /\ StatusIdle
    /\ ResolveIdle
    /\ RolesIdle
    /\ WaitIdle
    /\ NodeIdle

NextStatus == StatusInvoke \/ StatusPlainReturn \/ StatusListReturn

SpecStatus == InitStatus /\ [][NextStatus]_vars

InitResolve ==
    /\ backend = <<>>
    /\ power = [n \in NamePool |-> "Stopped"]
    /\ LifecycleIdle
    /\ ClusterIdle
    /\ MergeIdle
    /\ StatusIdle
    /\ rcommon \in CommonConfigs
    /\ rnodes = <<>>
    /\ rorigin = <<>>
    /\ rreported = <<>>
    /\ rcmds = <<>>
    /\ rpc = "Parsed"
    /\ ProvisionIdle
    /\ RolesIdle
    /\ WaitIdle
    /\ NodeIdle

NextResolve == LoadNodeConfigs \/ BuildCommands

SpecResolve == InitResolve /\ [][NextResolve]_vars

InitProvision ==
    /\ backend = <<>>
    /\ power = [n \in NamePool |-> "Stopped"]
    /\ LifecycleIdle
    /\ ClusterIdle
    /\ MergeIdle
    /\ StatusIdle
    /\ rcommon \in ProvisionConfigs
    /\ rflags \in InitFlags
    /\ rnodes = <<>>
    /\ rorigin = <<>>
    /\ rreported = <<>>
    /\ rcmds = <<>>
    /\ rpc = "Parsed"
    /\ rindex = 0
    /\ rcount = 0
    /\ rtrace = <<>>
    /\ rret = "None"
    /\ RolesIdle
    /\ WaitIdle
    /\ NodeIdle

NextProvision ==
    \/ LoadNodeConfigs
    \/ GenerateConfigFiles
    \/ BuildCommands
    \/ CreateVirtualMachines
    \/ ConfirmCreate
    \/ ExecuteReturn
    \/ ConfirmContinue

SpecProvision == InitProvision /\ [][NextProvision]_vars

InitWait ==
    /\ backend = <<>>
    /\ power = [n \in NamePool |-> "Stopped"]
    /\ LifecycleIdle
    /\ ClusterIdle
    /\ MergeIdle
    /\ StatusIdle
    /\ ResolveIdle
    /\ RolesIdle
    /\ WaitIdle
    /\ NodeIdle

NextWait == WaitInvoke \/ StatusReturn \/ SleepReturn

SpecWait == InitWait /\ [][NextWait]_vars

\* every call returns and every sleep ends
SpecWaitLive == SpecWait /\ WF_vars(NextWait)

NextNode ==
    \/ CreateNode
    \/ LaunchReturn
    \/ TransferReturn
    \/ ExecReturn
    \/ DeleteNode
    \/ DeleteConfirm
    \/ StopReturn
    \/ DeleteReturn

InitNode ==
    /\ backend = <<>>
    /\ power = [n \in NamePool |-> "Stopped"]
    /\ LifecycleIdle
    /\ ClusterIdle
    /\ MergeIdle
    /\ StatusIdle
    /\ ResolveIdle
    /\ RolesIdle
    /\ WaitIdle
    /\ NodeIdle

SpecNode == InitNode /\ [][NextNode]_vars

----------------------------------------------------------------------------
(* Reading the trace *)

Calls == { i \in DOMAIN trace : trace[i].type = "call" }
CallsOf(role) == { i \in Calls : trace[i].role = role }
CallsIn(ph) == { i \in Calls : trace[i].phase = ph }
Returns == { i \in DOMAIN trace : trace[i].type = "return" }
ReturnsIn(ph) == { i \in Returns : trace[i].phase = ph }
FailedReturns == { i \in Returns : ~trace[i].ok }
Prompts == { i \in DOMAIN trace : trace[i].type = "prompt" }
Answers == { i \in DOMAIN trace : trace[i].type = "answer" }
Declines == { i \in Answers : ~trace[i].yes }
Accepts == { i \in Answers : trace[i].yes }

GroupsDerived == pc \notin {"Idle", "Listing"} /\ vms # <<>>
BothNonEmpty == GroupsDerived /\ control_plane_vms # <<>> /\ worker_vms # <<>>
FirstGroup == GroupOf(FirstRole(operation), control_plane_vms, worker_vms)
SecondGroup == GroupOf(SecondRole(operation), control_plane_vms, worker_vms)
FirstBatchFailed == \E r \in ReturnsIn(1) : ~trace[r].ok
FirstBatchSucceeded == \E r \in ReturnsIn(1) : trace[r].ok

\* the request of role `first` was sent and has returned before every
\* request of role `second`
IssuedAndReturnedBefore(first, second) ==
    /\ CallsOf(first) # {}
    /\ \A j \in CallsOf(second) :
          \E i \in CallsOf(first), r \in Returns : i < r /\ r < j
    /\ \A j \in CallsOf(second), i \in CallsOf(first) : i < j

----------------------------------------------------------------------------
(* Claims *)

\* C1: in a start run with both groups non-empty the controller request is
\* issued first, and every worker request comes after the controller request
\* has returned.
C1_StartControllerFirst ==
    (operation = "start" /\ BothNonEmpty)
        => IssuedAndReturnedBefore("controller", "worker")

C1_Witness ==
    operation = "start" /\ BothNonEmpty /\ CallsOf("worker") # {}

\* C2: in a suspend or stop run with both groups non-empty the worker request
\* is issued first, and every controller request comes after the worker
\* request has returned.
C2_DownWorkerFirst ==
    (operation \in {"suspend", "stop"} /\ BothNonEmpty)
        => IssuedAndReturnedBefore("worker", "controller")

C2_Witness ==
    /\ operation = "stop"
    /\ BothNonEmpty
    /\ CallsOf("controller") # {}
    /\ impl = "cluster_operator"

\* C3: when the first group's batch fails the run has ended as Failed, and
\* no request and no confirmation prompt exists for the second group.
C3_FirstFailureHalts ==
    FirstBatchFailed =>
        /\ pc = "Returned"
        /\ outcome = "Failed"
        /\ ret # "True"
        /\ CallsIn(2) = {}
        /\ Cardinality(Calls) = 1
        /\ Prompts = {}

C3_Witness ==
    FirstBatchFailed /\ BothNonEmpty /\ operation = "suspend"

\* C4: once the operator has declined, the first group's VMs are in the
\* operation's target state and no request for the second group exists.
C4_DeclineKeepsFirstGroup ==
    Declines # {} =>
        /\ FirstBatchSucceeded
        /\ \A i \in 1..Len(FirstGroup) :
              power[FirstGroup[i].name] = TargetState(operation_map[operation])
        /\ CallsIn(2) = {}
        /\ Cardinality(Calls) = 1
        /\ pc = "Returned"

C4_Witness ==
    Declines # {} /\ SecondGroup # <<>> /\ operation = "start"

\* C5: a successful first batch is followed, once the pause after it is
\* over, by exactly one confirmation prompt, which is answered yes before
\* any second-group request; the second group's batch is followed by no
\* prompt: the run has returned.
C5_OneConfirmationBetweenGroups ==
    /\ Cardinality(Prompts) <= 1
    /\ (FirstBatchSucceeded /\ pc # "Sleeping") <=> Prompts # {}
    /\ pc = "Sleeping" => (FirstBatchSucceeded /\ trace[Len(trace)].type = "return")
    /\ \A r \in ReturnsIn(1) : (trace[r].ok /\ pc # "Sleeping") =>
          /\ r + 1 \in Prompts
          /\ \A j \in CallsIn(2) : \E a \in Accepts : r + 1 < a /\ a < j
    /\ \A r \in ReturnsIn(2) :
          /\ r = Len(trace)
          /\ pc = "Returned"
          /\ trace[r].ok => outcome = "Done"
    /\ \A p \in Prompts : \A i \in Calls : i < p => trace[i].phase = 1

C5_Witness ==
    /\ Cardinality(Prompts) = 1
    /\ ReturnsIn(2) # {}
    /\ outcome = "Done"

\* C6 as stated: every run in which a role group is empty treats that phase
\* as a success, so a run in which both groups are empty ends as Done.
C6_EmptyGroupAlwaysSucceeds ==
    (pc = "Returned" /\ control_plane_vms = <<>> /\ worker_vms = <<>>)
        => (outcome = "Done" /\ ret # "False" /\ Calls = {} /\ Prompts = {})

\* C6 (amended): when the backend reported at least one VM, an empty role
\* group gets no request and no confirmation gate and the run goes on to the
\* next phase or to Done; when the VM list itself is empty the run ends at
\* once as "No virtual machines found" with no request and no prompt.
C6_EmptyGroupSkipped ==
    /\ GroupsDerived =>
          /\ control_plane_vms = <<>> => CallsOf("controller") = {}
          /\ worker_vms = <<>> => CallsOf("worker") = {}
          /\ FirstGroup = <<>> => (Prompts = {} /\ CallsIn(1) = {})
          /\ SecondGroup = <<>> => CallsIn(2) = {}
          /\ (FirstGroup = <<>> /\ SecondGroup # <<>>) => CallsIn(2) # {}
          /\ (FirstGroup = <<>> /\ SecondGroup = <<>>) =>
                (pc = "Returned" /\ outcome = "Done" /\ ret # "False")
          /\ (SecondGroup = <<>> /\ Accepts # {}) =>
                (pc = "Returned" /\ outcome = "Done" /\ ret # "False")
    /\ (pc = "Returned" /\ vms = <<>>) =>
          /\ outcome = "NoVMs"
          /\ ret # "True"
          /\ Calls = {}
          /\ Prompts = {}

C6_Witness ==
    /\ GroupsDerived
    /\ FirstGroup = <<>>
    /\ SecondGroup # <<>>
    /\ outcome = "Done"

\* C7 as stated: a run that ended as completed had every batch succeed.
C7_DoneOnlyIfAllBatchesSucceeded ==
    outcome = "Done" => FailedReturns = {}

\* C8: a run ends as Aborted only by a declined confirmation, with no failed
\* batch, and it does not report failure.
C8_AbortedIsNotAnError ==
    /\ outcome = "Aborted" =>
          /\ pc = "Returned"
          /\ Len(trace) >= 2
          /\ trace[Len(trace)].type = "answer"
          /\ ~trace[Len(trace)].yes
          /\ trace[Len(trace) - 1].type = "prompt"
          /\ FailedReturns = {}
          /\ ret # "False"
          /\ impl = "cluster_operator" => ret = "True"
    /\ Declines # {} => outcome = "Aborted"

C8_Witness ==
    outcome = "Aborted" /\ impl = "cluster_operator" /\ operation = "stop"

\* C9: each role gets at most one request, the request names exactly the
\* members of the role's group, and a request is sent only when every
\* earlier request has returned.
C9_OneBatchPerGroup ==
    /\ \A role \in {"controller", "worker"} : Cardinality(CallsOf(role)) <= 1
    /\ \A i \in Calls :
          /\ trace[i].names =
                get_vm_names(GroupOf(trace[i].role, control_plane_vms, worker_vms))
          /\ trace[i].names # <<>>
          /\ i < Len(trace) => trace[i + 1].type = "return"
    /\ \A r \in Returns : trace[r - 1].type = "call"
    /\ Cardinality(Calls) - Cardinality(Returns) =
          (IF pc = "GroupInFlight" THEN 1 ELSE 0)

C9_Witness ==
    /\ Cardinality(Calls) = 2
    /\ Cardinality(Returns) = 2
    /\ \E i \in Calls : Len(trace[i].names) = 2
    /\ Len(vms) = 3

\* C10 as stated: the controller group and the worker group derived by name
\* matching are disjoint and together hold every VM of the list.
C10_GroupsPartitionVms ==
    GroupsDerived =>
        /\ Range(control_plane_vms) \cap Range(worker_vms) = {}
        /\ Range(control_plane_vms) \cup Range(worker_vms) = Range(vms)

\* C10 as stated, for the Cluster model: controller_nodes and worker_nodes
\* are disjoint and together hold every node.
C10_ClusterListsPartitionNodes ==
    cpc = "Loaded" =>
        /\ Range(controller_nodes) \cap Range(worker_nodes) = {}
        /\ Range(controller_nodes) \cup Range(worker_nodes) = DOMAIN nodes

----------------------------------------------------------------------------
(* Claims about the config merge *)

IsDict(x) == x.tag = "dict"

\* r relates to base b and override o as the merge rule says, at every depth
RECURSIVE MergeRule(_, _, _)
MergeRule(b, o, r) ==
    /\ IsDict(r)
    /\ DOMAIN r.v = DOMAIN b.v \cup DOMAIN o.v
    /\ \A key \in DOMAIN b.v \ DOMAIN o.v : r.v[key] = b.v[key]
    /\ \A key \in DOMAIN o.v :
          IF key \in DOMAIN b.v /\ IsDict(b.v[key]) /\ IsDict(o.v[key])
          THEN MergeRule(b.v[key], o.v[key], r.v[key])
          ELSE r.v[key] = o.v[key]

MergedResult == Decode(mheap, maddr.result)
MergedResult3 == Decode(mheap, maddr.result3)

\* C15: the merged tree has the keys of base and override; a key only in
\* base keeps base's value; a key that is a dict on both sides is merged
\* recursively; otherwise override's value replaces base's value whole: a
\* list of override stands in the result exactly as override has it, with
\* no element of base's list kept, appended or merged in.
C15_MergeRule ==
    /\ mpc \in {"Merged", "Merged3"} => MergeRule(mbase, moverride, MergedResult)
    /\ mpc = "Merged3" => MergeRule(MergedResult, mthird, MergedResult3)

C15_Witness ==
    /\ mpc = "Merged"
    /\ "a" \in DOMAIN mbase.v /\ "a" \in DOMAIN moverride.v
    /\ IsDict(mbase.v["a"]) /\ IsDict(moverride.v["a"])
    /\ "x" \in DOMAIN mbase.v["a"].v /\ "x" \in DOMAIN moverride.v["a"].v
    /\ mbase.v["a"].v["x"].tag = "list" /\ moverride.v["a"].v["x"].tag = "list"
    /\ Len(mbase.v["a"].v["x"].v) > Len(moverride.v["a"].v["x"].v)
    /\ MergedResult.v["a"].v["x"] = moverride.v["a"].v["x"]
    /\ "b" \in DOMAIN mbase.v /\ "b" \notin DOMAIN moverride.v

\* two different lists meet at a top-level key, the longer one in override
C15_WitnessLongerOverride ==
    /\ mpc = "Merged"
    /\ "b" \in DOMAIN mbase.v /\ "b" \in DOMAIN moverride.v
    /\ mbase.v["b"].tag = "list" /\ moverride.v["b"].tag = "list"
    /\ Len(mbase.v["b"].v) < Len(moverride.v["b"].v)
    /\ MergedResult.v["b"] = moverride.v["b"]

\* C16: after deep_merge returns, every object that existed before the call
\* (base, override and the dicts nested in them) has the items it had before.
C16_MergeIsPure ==
    /\ mpc \in {"Merged", "Merged3"} =>
          /\ Len(mheap) >= Len(mheap0)
          /\ \A a \in 1..Len(mheap0) : mheap[a] = mheap0[a]
          /\ Decode(mheap, maddr.base) = mbase
          /\ Decode(mheap, maddr.override) = moverride
    /\ mpc = "Merged" => maddr.result \notin {maddr.base, maddr.override}
    /\ mpc = "Merged3" => Decode(mheap, maddr.third) = mthird

C16_Witness ==
    /\ mpc = "Merged"
    /\ MergedResult # mbase
    /\ MergedResult # moverride
    /\ \E key \in DOMAIN mbase.v : IsDict(mbase.v[key])

\* the tree that layers (lowest precedence first) give when, at every key,
\* the highest layer that sets the key decides: a non-dict value stands as it
\* is, a dict is layered with the dicts directly below it
RECURSIVE Layered(_)
Layered(ls) ==
    Dict([key \in UNION { DOMAIN ls[i].v : i \in 1..Len(ls) } |->
        LET setters == { i \in 1..Len(ls) : key \in DOMAIN ls[i].v }
            top == CHOOSE i \in setters : \A j \in setters : j <= i
            dictFrom(j) == \A i \in setters : i >= j => IsDict(ls[i].v[key])
            low == CHOOSE j \in setters :
                      /\ dictFrom(j)
                      /\ \A i \in setters : dictFrom(i) => j <= i
            run[i \in 0..Len(ls)] ==
                IF i = 0 THEN <<>>
                ELSE IF i \in setters /\ i >= low
                     THEN Append(run[i - 1], ls[i].v[key])
                     ELSE run[i - 1]
        IN IF IsDict(ls[top].v[key]) THEN Layered(run[Len(ls)]) ELSE ls[top].v[key]])

\* C17: merging C over the merge of A and B gives the tree in which every
\* key path has the value of the highest of A, B, C that sets it.
C17_SequentialMergeIsLayering ==
    /\ mpc \in {"Merged", "Merged3"} => MergedResult = Layered(<<mbase, moverride>>)
    /\ mpc = "Merged3" => MergedResult3 = Layered(<<mbase, moverride, mthird>>)

C17_Witness ==
    /\ mpc = "Merged3"
    /\ \A t \in {mbase, moverride, mthird} : "a" \in DOMAIN t.v
    /\ IsDict(mbase.v["a"]) /\ "x" \in DOMAIN mbase.v["a"].v
    /\ ~IsDict(moverride.v["a"])
    /\ IsDict(mthird.v["a"])
    /\ "b" \in DOMAIN mbase.v /\ "b" \in DOMAIN moverride.v
    /\ IsDict(mbase.v["b"]) /\ IsDict(moverride.v["b"])

----------------------------------------------------------------------------
(* Claims about the Cluster model *)

\* a quantity in MiB: n GiB for "nG", n MiB for "nM", nothing otherwise
QuantityMiB(text) ==
    IF Len(text) < 2 \/ ~IntParses(DropLast(text)) THEN 0
    ELSE CASE text[Len(text)] = "G" -> 1024 * IntOf(DropLast(text))
           [] text[Len(text)] = "M" -> IntOf(DropLast(text))
           [] OTHER -> 0

WellFormedQuantity(text) ==
    /\ Len(text) >= 2
    /\ text[Len(text)] \in {"G", "M"}
    /\ IntParses(DropLast(text))

RECURSIVE SumCpus(_, _)
SumCpus(nodemap, names) ==
    IF names = {} THEN 0
    ELSE LET n == CHOOSE x \in names : TRUE
         IN nodemap[n].resources.cpus + SumCpus(nodemap, names \ {n})

RECURSIVE SumMemoryMiB(_, _)
SumMemoryMiB(nodemap, names) ==
    IF names = {} THEN 0
    ELSE LET n == CHOOSE x \in names : TRUE
         IN QuantityMiB(nodemap[n].resources.memory) + SumMemoryMiB(nodemap, names \ {n})

RECURSIVE SumDiskMiB(_, _)
SumDiskMiB(nodemap, names) ==
    IF names = {} THEN 0
    ELSE LET n == CHOOSE x \in names : TRUE
         IN QuantityMiB(nodemap[n].resources.disk) + SumDiskMiB(nodemap, names \ {n})

InventoryItemSeq == inventory.controller \o inventory.worker
InventoryNameList == [i \in 1..Len(InventoryItemSeq) |-> InventoryItemSeq[i].name]

\* C11 as stated: the cluster's totals are the sums over its current nodes.
C11_TotalsAreCurrent ==
    cpc = "Loaded" =>
        /\ resources.total_cpus = SumCpus(nodes, DOMAIN nodes)
        /\ resources.total_memory.x1024 = SumMemoryMiB(nodes, DOMAIN nodes)
        /\ resources.total_disk.x1024 = SumDiskMiB(nodes, DOMAIN nodes)

\* C12 as stated: a cluster is never built from an inventory that names a
\* node twice; the second addition fails instead of replacing the first.
C12_DuplicateNameRejected ==
    cpc = "Loaded" => NoDup(InventoryNameList)

\* C13 as stated: a cluster whose totals were computed has no node with a
\* malformed memory or disk quantity; such a quantity fails the aggregation.
C13_MalformedQuantityFails ==
    cpc = "Loaded" =>
        \A n \in DOMAIN nodes :
            /\ WellFormedQuantity(nodes[n].resources.memory)
            /\ WellFormedQuantity(nodes[n].resources.disk)

\* C14: whenever the aggregation returns, the memory and disk totals in MiB
\* are the sums of 1024 * n over the "nG" values and n over the "nM" values,
\* for the totals the constructor stored and for any later node set.
C14_UnitsAreCorrect ==
    cpc = "Loaded" =>
        /\ LET loaded == LoadNodes(inventory).nodes
           IN /\ resources.total_memory.x1024 = SumMemoryMiB(loaded, DOMAIN loaded)
              /\ resources.total_disk.x1024 = SumDiskMiB(loaded, DOMAIN loaded)
        /\ LET r == calculate_resources(nodes)
           IN r.error = "None" =>
                 /\ r.totals.total_memory.x1024 = SumMemoryMiB(nodes, DOMAIN nodes)
                 /\ r.totals.total_disk.x1024 = SumDiskMiB(nodes, DOMAIN nodes)

C14_Witness ==
    /\ cpc = "Loaded"
    /\ \E n \in DOMAIN nodes : nodes[n].resources.memory = Q("4","G")
    /\ \E n \in DOMAIN nodes : nodes[n].resources.memory = Q512M
    /\ resources.total_memory = [x1024 |-> 4608, float |-> TRUE]
    /\ resources.total_disk = [x1024 |-> 12288, float |-> FALSE]

\* C20 as stated, for the Cluster model: whatever happens to one node of the
\* inventory, every node whose config file can be read is loaded.
C20_ClusterLoadIsolatesFailures ==
    cpc # "New" =>
        \A i \in 1..Len(InventoryItemSeq) :
            NodeFiles(InventoryItemSeq[i].path).kind = "list"
                => InventoryItemSeq[i].name \in DOMAIN nodes

----------------------------------------------------------------------------
(* Claims about init's node resolution and status *)

\* the value a layer sets for resources.<key>: <<>> when it sets none
ResourceOf(layer, key) ==
    IF "resources" \in DOMAIN layer.v /\ key \in DOMAIN layer.v["resources"].v
    THEN << layer.v["resources"].v[key].v >>
    ELSE <<>>

\* the value a layer sets for a top-level key
TopOf(layer, key) ==
    IF key \in DOMAIN layer.v THEN << layer.v[key].v >> ELSE <<>>

\* the first value set, from the strongest layer to the weakest
FirstSet(override, roleDefault, clusterDefault, builtin) ==
    IF override # <<>> THEN override[1]
    ELSE IF roleDefault # <<>> THEN roleDefault[1]
    ELSE IF clusterDefault # <<>> THEN clusterDefault[1]
    ELSE builtin

\* the per-node data of the j-th resolved node: the first entry of its file
OverrideOf(j) ==
    LET file == MainNodeFiles(rcommon.inventory[rorigin[j]].path)
    IN IF file.has_nodes THEN file.nodes[1] ELSE Dict(EmptyObject)

\* C18: for every resolved node, each launch setting is the per-node value
\* when the node's file sets it, else the node_defaults value when that
\* sets it, else the global value, else the built-in default; the Node
\* model's resources obey the same order over its two layers.
C18_LayerPrecedence ==
    rpc = "Built" =>
        \A j \in 1..Len(rcmds) :
            LET override == OverrideOf(j)
                roleDefault == rcommon.node_defaults
                clusterDefault == rcommon.global
                node == NodeInit(rcmds[j].name, MergeTrees(roleDefault, override))
            IN /\ rcmds[j].cpus =
                     IntStr(FirstSet(ResourceOf(override, "cpus"),
                                     ResourceOf(roleDefault, "cpus"),
                                     ResourceOf(clusterDefault, "cpus"), 2))
               /\ rcmds[j].memory =
                     FirstSet(ResourceOf(override, "memory"),
                              ResourceOf(roleDefault, "memory"),
                              ResourceOf(clusterDefault, "memory"), Q("4","G"))
               /\ rcmds[j].image =
                     FirstSet(TopOf(override, "image"),
                              TopOf(roleDefault, "image"),
                              TopOf(clusterDefault, "base_image"), Image2204)
               /\ node.resources.cpus =
                     FirstSet(ResourceOf(override, "cpus"),
                              ResourceOf(roleDefault, "cpus"), <<>>, 2)
               /\ node.resources.memory =
                     FirstSet(ResourceOf(override, "memory"),
                              ResourceOf(roleDefault, "memory"), <<>>, Q("2","G"))

C18_Witness ==
    /\ rpc = "Built"
    /\ ResourceOf(rcommon.global, "cpus") = <<1>>
    /\ ResourceOf(rcommon.node_defaults, "cpus") = <<3>>
    /\ ResourceOf(rcommon.node_defaults, "memory") = << Q("3","G") >>
    /\ TopOf(rcommon.global, "base_image") = << Image2004 >>
    /\ TopOf(rcommon.node_defaults, "image") = <<>>
    /\ Len(rcmds) = 2
    /\ rcommon.inventory[rorigin[1]].path = "cpus.yaml"
    /\ rcmds[1].cpus = <<"8">>
    /\ rcmds[1].memory = Q("3","G")
    /\ rcmds[1].image = Image2004
    /\ rcommon.inventory[rorigin[2]].path = "plain.yaml"
    /\ rcmds[2].cpus = <<"3">>

\* name contains keyword, letters compared without regard to case
ContainsIgnoringCase(name, keyword) ==
    \E off \in 0..(Len(name) - Len(keyword)) :
        \A k \in 1..Len(keyword) :
            LowerChar(name[off + k]) = LowerChar(keyword[k])

\* the j-th smallest member of a set of positions
NthPosition(S, j) == CHOOSE i \in S : Cardinality({ k \in S : k <= i }) = j

StatusKeyword == IF sargs.main THEN KwMain ELSE KwWorker

\* C19: the VMs status shows under --main / --worker are exactly the
\* reported VMs whose name contains the keyword case-insensitively, each
\* once and in the reported order, and the reported list is left as it was.
C19_FilterIsExactAndOrdered ==
    (spc = "Done" /\ (sargs.main \/ sargs.worker) /\ slist # <<>>) =>
        LET hits == { i \in 1..Len(slist) :
                        ContainsIgnoringCase(slist[i].name, StatusKeyword) }
        IN /\ Len(sshown) = Cardinality(hits)
           /\ \A j \in 1..Len(sshown) : sshown[j] = slist[NthPosition(hits, j)]
           /\ slist = VmDicts(backend, power)

C19_Witness ==
    /\ spc = "Done"
    /\ sout = "Table"
    /\ sargs.worker /\ ~sargs.main
    /\ Len(slist) = 3
    /\ Len(sshown) = 2
    /\ sshown[1].name = <<"W","o","r","k","e","r","-","2">>
    /\ sshown[2].name = <<"w","o","r","k","e","r","-","1">>
    /\ slist[2].name = <<"d","b">>

\* C20 as stated: once load_node_configs has run, every inventory item
\* whose own file holds a node config is among the nodes returned, whatever
\* the files of the other items are.
C20_FailuresIsolatedPerNode ==
    rpc # "Parsed" =>
        \A i \in 1..Len(rcommon.inventory) :
            LET file == MainNodeFiles(rcommon.inventory[i].path)
            IN (file.kind = "dict" /\ (file.has_nodes => Len(file.nodes) > 0))
                  => \E j \in 1..Len(rorigin) : rorigin[j] = i

----------------------------------------------------------------------------
(* Claims about init *)

InitEvents(type) == { i \in DOMAIN rtrace : rtrace[i].type = type }
ProceedPrompts ==
    { i \in InitEvents("prompt") : rtrace[i].about = "proceed" }
OkReturns == { i \in InitEvents("return") : rtrace[i].result = "ok" }
CreationLoopRan ==
    /\ InitMode(rflags) = "create"
    /\ rpc \in {"Confirming", "Launching", "AskContinue", "Returned"}
    /\ rnodes # <<>>

\* C21 as stated: with --yes no confirmation prompt is shown for any node.
C21_YesSkipsConfirmation ==
    rflags.yes => ProceedPrompts = {}

\* C22: with --dry-run or --generate no launch request is sent and the
\* creation loop is never entered; with --generate the files are written
\* and no dry-run command list is produced, whatever --dry-run says.
C22_NoLaunchInDryRunOrGenerate ==
    /\ (rflags.dry_run \/ rflags.generate) =>
          /\ InitEvents("launch") = {}
          /\ rpc \notin {"Confirming", "Launching", "AskContinue", "Returned"}
    /\ rflags.generate => (rpc # "Built" /\ rcmds = <<>>)
    /\ rpc = "Generated" => rflags.generate
    /\ rpc = "Built" => (rflags.dry_run /\ InitEvents("write") = {})

C22_Witness ==
    /\ rpc = "Generated"
    /\ rflags.generate
    /\ rflags.dry_run
    /\ Len(rnodes) = 2
    /\ Cardinality(InitEvents("write")) = 2

\* C23: in the creation loop success_count is the number of launches that
\* returned success, it stays between 0 and the number of nodes, every node
\* has at most one launch, and the loop returns True exactly when the count
\* equals the number of nodes.
C23_CountIsSuccessfulLaunches ==
    CreationLoopRan =>
        /\ rcount = Cardinality(OkReturns)
        /\ 0 <= rcount /\ rcount <= Len(rnodes)
        /\ \A i, j \in InitEvents("launch") :
              rtrace[i].node = rtrace[j].node => i = j
        /\ \A i \in InitEvents("return") :
              \E l \in InitEvents("launch") :
                  l < i /\ rtrace[l].node = rtrace[i].node
        /\ rpc = "Returned" => (rret = "True" <=> rcount = Len(rnodes))
        /\ rpc # "Returned" => rret = "None"

C23_Witness ==
    /\ CreationLoopRan
    /\ rpc = "Returned"
    /\ Len(rnodes) = 2
    /\ rcount = 1
    /\ rret = "False"
    /\ \E i \in InitEvents("answer") : rtrace[i].node = 1 /\ ~rtrace[i].yes
    /\ \E i \in OkReturns : rtrace[i].node = 2

\* C24 as stated: a generated file exists only for a node that was resolved
\* and whose resource quantities passed validation.
C24_FilesOnlyForValidatedNodes ==
    LET loaded == LoadNodes(inventory).nodes
    IN \A i \in 1..Len(generated) :
          /\ generated[i] \in DOMAIN loaded
          /\ WellFormedQuantity(loaded[generated[i]].resources.memory)
          /\ WellFormedQuantity(loaded[generated[i]].resources.disk)

\* the names an inventory declares under a role, in declaration order
DeclaredNames(role) ==
    LET items == IF role = "controller" THEN inventory.controller
                 ELSE inventory.worker
    IN [i \in 1..Len(items) |-> items[i].name]

\* C26: get_nodes_by_type returns the node names of the role in the order
\* the inventory declares them, after any number of calls, and the empty
\* list for a type that is neither controller nor worker.
C26_NodesByRoleInDeclarationOrder ==
    qtype # "None" =>
        /\ qtype \in {"controller", "worker"} => qresult = DeclaredNames(qtype)
        /\ qtype \notin {"controller", "worker"} => qresult = <<>>

C26_Witness ==
    /\ qtype = "worker"
    /\ qresult = << <<"w","1">>, <<"c","1">> >>
    /\ controller_nodes = <<>>

C26_WitnessUnknownType ==
    /\ qtype = "master"
    /\ qresult = <<>>
    /\ worker_nodes # <<>>

----------------------------------------------------------------------------
(* Claims about wait_for_node_status *)

\* most polls a wait with the given timeout can make, one every two seconds
PollLimit(timeout) == (timeout + 1) \div 2

WaitSafe ==
    /\ wpolls <= PollLimit(wtimeout)
    /\ wpc = "Sleeping" => wstatus # wtarget
    /\ wret = "True" => (wpc = "Returned" /\ wstatus = wtarget)
    /\ wret = "False" => (wpc = "Returned" /\ wnow - wstart >= wtimeout)
    /\ wpc = "Returned" => wret \in {"True", "False"}

\* C25: every wait returns; it returns True at the first observed status
\* equal to the target, False only once the timeout has elapsed, and it
\* never polls more than once per two seconds of the timeout.
C25_WaitTerminates ==
    [](WaitSafe) /\ <>(wpc = "Returned")

C25_Witness ==
    /\ wpc = "Returned"
    /\ wret = "False"
    /\ wtimeout = DefaultTimeout
    /\ wpolls = 30
    /\ wnow - wstart >= 60

----------------------------------------------------------------------------
(* Claims about node_operator.py: create_node and delete_node *)

NodeEvents(type) == { p \in 1..Len(ntrace) : ntrace[p].type = type }
NodeReturns(of) ==
    { p \in 1..Len(ntrace) : ntrace[p].type = "return" /\ ntrace[p].of = of }
ExistingScripts == { j \in 1..Len(nscripts) : nscripts[j].exists }
CreateRan == Len(ntrace) > 0 /\ ntrace[1].type = "launch"
DeleteRan == Len(ntrace) > 0 /\ ntrace[1].type \in {"prompt", "stop"}
LaunchSucceeded ==
    \E p \in NodeReturns("launch") : ntrace[p].ok
LaunchFailed ==
    \E p \in NodeReturns("launch") : ~ntrace[p].ok

\* C29: in create_node the post-creation scripts run only after the launch
\* returned success, in the order the configuration declares them, each one
\* transferred and then executed; a script whose path does not exist is
\* passed over; after a failed launch no script request is made and the
\* result is failure; after a successful launch the result is success
\* whatever the transfers and executions returned.
C29_ScriptsOnlyAfterLaunch ==
    CreateRan =>
      /\ \A p \in NodeEvents("transfer") \cup NodeEvents("exec") :
            /\ p > 2
            /\ ntrace[2].type = "return" /\ ntrace[2].of = "launch" /\ ntrace[2].ok
            /\ ntrace[p].script \in ExistingScripts
      /\ \A p \in NodeEvents("exec") :
            /\ ntrace[p - 1].type = "return" /\ ntrace[p - 1].of = "transfer"
            /\ ntrace[p - 2].type = "transfer"
            /\ ntrace[p - 2].script = ntrace[p].script
      /\ \A p, q \in NodeEvents("transfer") :
            p < q => ntrace[p].script < ntrace[q].script
      /\ \A p \in NodeEvents("transfer"), j \in ExistingScripts :
            j < ntrace[p].script =>
               \E q \in NodeEvents("exec") : q < p /\ ntrace[q].script = j
      /\ LaunchFailed =>
            /\ NodeEvents("transfer") \cup NodeEvents("exec") = {}
            /\ npc = "Returned" /\ nret = "False"
      /\ (npc = "Returned" /\ LaunchSucceeded) =>
            /\ nret = "True"
            /\ \A j \in ExistingScripts :
                  /\ \E p \in NodeEvents("transfer") : ntrace[p].script = j
                  /\ \E p \in NodeEvents("exec") : ntrace[p].script = j

\* create_node returned success although a transfer and an exec failed,
\* after two existing scripts were run in order
C29_Witness ==
    /\ CreateRan
    /\ npc = "Returned"
    /\ nret = "True"
    /\ Cardinality(NodeEvents("exec")) = 2
    /\ \E p \in NodeReturns("exec") : ~ntrace[p].ok
    /\ \E p \in NodeReturns("transfer") : ~ntrace[p].ok

\* create_node after a failed launch, with scripts configured
C29_WitnessFailedLaunch ==
    /\ CreateRan
    /\ LaunchFailed
    /\ ExistingScripts # {}
    /\ nret = "False"

Declined ==
    \E p \in NodeEvents("answer") : ~ntrace[p].yes

\* C30: delete_node without force whose confirmation is declined makes no
\* backend request and returns failure; in every other case the stop
\* request is made before the delete request, and the result is the
\* outcome of the delete request whatever the stop request returned.
C30_DeleteStopsFirst ==
    DeleteRan =>
      /\ (~nforce) => ntrace[1].type = "prompt"
      /\ nforce => NodeEvents("prompt") = {}
      /\ Declined =>
            /\ NodeEvents("stop") \cup NodeEvents("delete") = {}
            /\ npc = "Returned" /\ nret = "False"
      /\ \A p \in NodeEvents("delete") :
            /\ ntrace[p - 1].type = "return" /\ ntrace[p - 1].of = "stop"
            /\ ntrace[p - 2].type = "stop"
      /\ Cardinality(NodeEvents("stop")) <= 1
      /\ Cardinality(NodeEvents("delete")) <= 1
      /\ (npc = "Returned" /\ ~Declined) =>
            /\ NodeEvents("stop") # {} /\ NodeEvents("delete") # {}
            /\ \E p \in NodeReturns("delete") :
                  nret = (IF ntrace[p].ok THEN "True" ELSE "False")

\* delete_node returned success although the stop request failed
C30_Witness ==
    /\ DeleteRan
    /\ npc = "Returned"
    /\ nret = "True"
    /\ \E p \in NodeReturns("stop") : ~ntrace[p].ok

\* delete_node without force, declined
C30_WitnessDeclined ==
    /\ DeleteRan
    /\ ~nforce
    /\ Declined
    /\ nret = "False"

----------------------------------------------------------------------------
(* Claims about the lifecycle runs as a whole *)

TraceEvents(type) == { p \in 1..Len(trace) : trace[p].type = type }

\* the resources a run may use: one VM-list query, two power-state calls,
\* one confirmation
RunWithinLimits ==
    /\ Cardinality(TraceEvents("list")) <= 1
    /\ Cardinality(TraceEvents("call")) <= 2
    /\ Cardinality(TraceEvents("prompt")) <= 1

\* a returned run has no request or prompt outstanding
NothingOutstanding ==
    pc = "Returned" =>
       /\ Len(trace) > 0
       /\ trace[Len(trace)].type \in {"listed", "return", "answer"}

EndsDoneAbortedOrFailed ==
    pc = "Returned" => outcome \in {"Done", "Aborted", "Failed"}

EndsWithOneOutcome ==
    /\ pc = "Returned" => outcome \in {"NoVMs", "Done", "Aborted", "Failed"}
    /\ pc # "Returned" => outcome = "None"
    /\ outcome = "NoVMs" <=>
          /\ pc = "Returned"
          /\ vms = <<>>
          /\ TraceEvents("call") = {}
          /\ TraceEvents("prompt") = {}

\* C27 as stated: every lifecycle run terminates in exactly one of Done,
\* Aborted or Failed after at most one VM-list query, two power-state calls
\* and one confirmation, and nothing happens after the terminal outcome.
C27_TerminatesDoneAbortedOrFailed ==
    /\ [](RunWithinLimits /\ NothingOutstanding /\ EndsDoneAbortedOrFailed)
    /\ [][pc # "Returned"]_vars
    /\ <>(pc = "Returned")

\* C27 amended: every lifecycle run terminates after at most one VM-list
\* query, two power-state calls and one confirmation, in exactly one of
\* Done, Aborted, Failed or, when the VM list came back empty, the
\* "No virtual machines found" exit that makes no power-state call and
\* shows no prompt; no step follows the terminal outcome.
C27_RunTerminates ==
    /\ [](RunWithinLimits /\ NothingOutstanding /\ EndsWithOneOutcome)
    /\ [][pc # "Returned"]_vars
    /\ <>(pc = "Returned")

\* a run that used everything it may: the list query, both power-state
\* calls and the confirmation
C27_Witness ==
    /\ pc = "Returned"
    /\ outcome \in {"Done", "Failed"}
    /\ Cardinality(TraceEvents("list")) = 1
    /\ Cardinality(TraceEvents("call")) = 2
    /\ Cardinality(TraceEvents("prompt")) = 1

\* a run that ended on the empty VM list
C27_WitnessNoVMs ==
    /\ pc = "Returned"
    /\ outcome = "NoVMs"
    /\ Cardinality(TraceEvents("list")) = 1

----------------------------------------------------------------------------
(* Claims about the three copies of the lifecycle sequence *)

IsRequest(e) == e.type \in {"list", "call", "prompt"}

\* the gateway calls and confirmation prompts of the run, in order
RequestsOf(log) == SelectSeq(log, IsRequest)

\* the sequence of gateway calls and prompts that the VM list, the gateway
\* outcomes and the answer of this run determine for a k3s cluster, whichever
\* copy runs
ExpectedRequests ==
    LET listing == << [type |-> "list"] >>
        cp == filter_vms_by_name(vms, KwMain)
        wk == filter_vms_by_name(vms, KwWorker)
        first == GroupOf(FirstRole(operation), cp, wk)
        second == GroupOf(SecondRole(operation), cp, wk)
        c1 == IF SendsBatch(first, operation)
              THEN << CallEvent(FirstRole(operation), operation, first, 1) >>
              ELSE <<>>
        firstOk == \E r \in ReturnsIn(1) : trace[r].ok
        accepted == \E a \in Answers : trace[a].yes
        gate == IF c1 # <<>> /\ firstOk /\ pc # "Sleeping"
                THEN << [type |-> "prompt"] >> ELSE <<>>
        reachesSecond == IF c1 = <<>> THEN TRUE ELSE firstOk /\ accepted
        c2 == IF reachesSecond /\ SendsBatch(second, operation)
              THEN << CallEvent(SecondRole(operation), operation, second, 2) >>
              ELSE <<>>
    IN IF pc = "Idle" THEN <<>>
       ELSE IF pc = "Listing" \/ vms = <<>> THEN listing
       ELSE listing \o c1 \o gate \o c2

\* C28: for a k3s cluster the gateway calls and confirmation prompts of a
\* run are the same sequence whichever of the three copies runs
\* (cluster_operator, k3s_operator, tools/main.py): the sequence is fixed by
\* the operation, the VM list, the gateway outcomes and the answer alone.
C28_CopiesIssueSameRequests ==
    (pc # "Idle" /\ cluster_type = "k3s")
        => RequestsOf(trace) = ExpectedRequests

\* the tools/main.py copy after both requests and the prompt, where the
\* second request failed
C28_Witness ==
    /\ impl = "tools_main"
    /\ pc = "Returned"
    /\ Cardinality(Calls) = 2
    /\ Prompts # {}
    /\ \E r \in ReturnsIn(2) : ~trace[r].ok

\* the k3s_operator and cluster_operator copies after both requests
C28_WitnessOtherCopies ==
    /\ impl \in {"k3s_operator", "cluster_operator"}
    /\ cluster_type = "k3s"
    /\ pc = "Returned"
    /\ Cardinality(Calls) = 2

====
